---- MODULE Spec2Model ----
(***************************************************************************)
(* Model of the goresponse helpers: pagination (src/pagination.go:         *)
(* FilterOptions, Validate, ParseURLValues, GenerateCacheKey,              *)
(* GeneratePaginatedResponse) and error responses (src/errors.go:          *)
(* StandardErrorResponse and the translation of errors into entries).      *)
(*                                                                         *)
(* Go strings are modelled as sequences of byte values (ASCII codes), so   *)
(* that trimming, case folding, integer parsing, lexicographic sorting and *)
(* joining are computed as the code computes them.  Go's int is modelled   *)
(* as a two's-complement integer of IntBits bits.                          *)
(***************************************************************************)
EXTENDS Integers, Sequences, FiniteSets, TLC

----------------------------------------------------------------------------
(* Bounds of the model *)

\* width of the modelled Go int (two's complement)
IntBits == 16
\* number of caller operations (assignments, parses, configuration changes)
\* in one behaviour
MaxAssign == 2

----------------------------------------------------------------------------
(* Machine integers *)

RECURSIVE Pow2(_)
Pow2(n) == IF n = 0 THEN 1 ELSE 2 * Pow2(n - 1)

MaxInt == Pow2(IntBits - 1) - 1
MinInt == 0 - Pow2(IntBits - 1)

\* the value a Go int holds after an arithmetic result x (wrap-around)
WrapInt(x) == ((x + Pow2(IntBits - 1)) % Pow2(IntBits)) - Pow2(IntBits - 1)

----------------------------------------------------------------------------
(* Strings: sequences of byte values *)

EmptyStr == <<>>

\* unicode.IsSpace restricted to ASCII: \t \n \v \f \r and space
IsSpace(c) == c \in {9, 10, 11, 12, 13, 32}

RECURSIVE TrimLeft(_)
TrimLeft(s) ==
    IF s = <<>> THEN <<>>
    ELSE IF IsSpace(Head(s)) THEN TrimLeft(Tail(s)) ELSE s

RECURSIVE TrimRight(_)
TrimRight(s) ==
    IF s = <<>> THEN <<>>
    ELSE IF IsSpace(s[Len(s)]) THEN TrimRight(SubSeq(s, 1, Len(s) - 1)) ELSE s

\* strings.TrimSpace
TrimSpace(s) == TrimRight(TrimLeft(s))

\* strings.ToLower on ASCII
ToLower(s) == [i \in 1..Len(s) |-> IF s[i] >= 65 /\ s[i] <= 90 THEN s[i] + 32 ELSE s[i]]

\* Go's < on strings: bytewise lexicographic order
RECURSIVE StrLess(_, _)
StrLess(a, b) ==
    IF b = <<>> THEN FALSE
    ELSE IF a = <<>> THEN TRUE
    ELSE IF Head(a) < Head(b) THEN TRUE
    ELSE IF Head(a) > Head(b) THEN FALSE
    ELSE StrLess(Tail(a), Tail(b))

RECURSIVE InsertSorted(_, _)
InsertSorted(x, ss) ==
    IF ss = <<>> THEN <<x>>
    ELSE IF StrLess(x, Head(ss)) THEN <<x>> \o ss
    ELSE <<Head(ss)>> \o InsertSorted(x, Tail(ss))

RECURSIVE SortedOf(_)
SortedOf(ss) == IF ss = <<>> THEN <<>> ELSE InsertSorted(Head(ss), SortedOf(Tail(ss)))

\* a sort that leaves its argument as it is
SortStrings_noop(ss) == ss

\* sort.Strings: the strings of ss in ascending order
SortStrings(ss) == SortedOf(ss)

\* strings.Join
RECURSIVE Join(_, _)
Join(ss, sep) ==
    IF ss = <<>> THEN <<>>
    ELSE IF Len(ss) = 1 THEN ss[1]
    ELSE ss[1] \o sep \o Join(Tail(ss), sep)

\* strings.Split(s, ",") for a one-byte separator
RECURSIVE SplitAcc(_, _, _)
SplitAcc(s, sep, cur) ==
    IF s = <<>> THEN <<cur>>
    ELSE IF Head(s) = sep THEN <<cur>> \o SplitAcc(Tail(s), sep, <<>>)
    ELSE SplitAcc(Tail(s), sep, Append(cur, Head(s)))

Split(s, sep) == SplitAcc(s, sep, <<>>)

IsDigit(c) == c >= 48 /\ c <= 57

\* decimal digits of a natural number
RECURSIVE FormatNat(_)
FormatNat(n) == IF n < 10 THEN <<48 + n>> ELSE FormatNat(n \div 10) \o <<48 + (n % 10)>>

\* fmt.Sprintf("%d", n)
FormatInt(n) == IF n < 0 THEN <<45>> \o FormatNat(0 - n) ELSE FormatNat(n)

\* value of a digit string, saturating just above the int range
RECURSIVE DigitsValue(_, _)
DigitsValue(s, acc) ==
    IF s = <<>> THEN acc
    ELSE IF acc > MaxInt + 1 THEN acc
    ELSE DigitsValue(Tail(s), acc * 10 + (Head(s) - 48))

\* strconv.ParseInt(s, 10, bitSize of int): optional sign, then digits;
\* a syntax error or a value out of range is an error
ParseInt(s) ==
    LET signed == s # <<>> /\ Head(s) \in {43, 45}
        neg    == s # <<>> /\ Head(s) = 45
        digits == IF signed THEN Tail(s) ELSE s
        syntax == digits # <<>> /\ \A i \in 1..Len(digits) : IsDigit(digits[i])
        mag    == IF syntax THEN DigitsValue(digits, 0) ELSE 0
        val    == IF neg THEN 0 - mag ELSE mag
    IN  IF syntax /\ val >= MinInt /\ val <= MaxInt
        THEN [ok |-> TRUE, val |-> val]
        ELSE [ok |-> FALSE, val |-> 0]

----------------------------------------------------------------------------
(* FilterOptions *)

\* default maximum page size of GetMaxLimitFromEnv
MaxLimitDefault == 100

\* FilterOptions{}: the zero value.  Offset is a *int (set = FALSE is nil),
\* DynamicFields a map (isNil = TRUE is the nil map).  A nil slice and an
\* empty slice are both the empty sequence.
ZeroFilter ==
    [ Page |-> 0, Limit |-> 0, Offset |-> [set |-> FALSE, v |-> 0],
      Search |-> EmptyStr, Dir |-> EmptyStr, SortBy |-> EmptyStr,
      StartDate |-> EmptyStr, EndDate |-> EmptyStr,
      Type |-> EmptyStr, Status |-> EmptyStr,
      Categories |-> <<>>,
      DynamicFields |-> [isNil |-> TRUE, m |-> <<>>] ]

\* GetMaxLimitFromEnv: envLimit is os.Getenv("MAX_LIMIT_PAGINATE"), the
\* empty string when the variable is not set
GetMaxLimitFromEnv(envLimit) ==
    LET r == ParseInt(envLimit)
    IN  IF ~r.ok \/ r.val < 1 THEN MaxLimitDefault ELSE r.val

\* Validate: "Ensure Page is always at least 1"
ClampPage(page) == IF page < 1 THEN 1 ELSE page

\* a limit clamp that forgets the upper bound
ClampLimit_noMax(limit, maxLimit) == IF limit < 1 THEN 1 ELSE limit

\* Validate: "Ensure Limit is at least 1 and at most maxLimit"
ClampLimit(limit, maxLimit) ==
    IF limit < 1 THEN 1
    ELSE IF limit > maxLimit THEN maxLimit
    ELSE limit

\* a normalisation that switches on the raw text, without strings.ToLower
NormalizeDir_noLower(dir) ==
    IF dir = <<97, 115, 99>> THEN <<65, 83, 67>>
    ELSE IF dir = <<100, 101, 115, 99>> THEN <<68, 69, 83, 67>>
    ELSE <<68, 69, 83, 67>>

\* a normalisation whose default case keeps the text it was given
NormalizeDir_noDefault(dir) ==
    IF ToLower(dir) = <<97, 115, 99>> THEN <<65, 83, 67>>
    ELSE IF ToLower(dir) = <<100, 101, 115, 99>> THEN <<68, 69, 83, 67>>
    ELSE dir

\* Validate: "Normalize Sort Direction (Dir)": "asc" -> "ASC", "desc" -> "DESC",
\* default "DESC"
NormalizeDir(dir) ==
    IF ToLower(dir) = <<97, 115, 99>> THEN <<65, 83, 67>>
    ELSE IF ToLower(dir) = <<100, 101, 115, 99>> THEN <<68, 69, 83, 67>>
    ELSE <<68, 69, 83, 67>>

\* an offset that is recomputed on every call
ComputeOffset_always(offset, page, limit) ==
    [set |-> TRUE, v |-> WrapInt((page - 1) * limit)]

\* Validate: "Calculate Offset if not already set"; Go's int product wraps
ComputeOffset(offset, page, limit) ==
    IF ~offset.set
    THEN [set |-> TRUE, v |-> WrapInt((page - 1) * limit)]
    ELSE offset

RECURSIVE CleanLoop(_)
CleanLoop(cats) ==
    IF cats = <<>> THEN <<>>
    ELSE IF TrimSpace(Head(cats)) # EmptyStr
         THEN <<TrimSpace(Head(cats))>> \o CleanLoop(Tail(cats))
         ELSE CleanLoop(Tail(cats))

\* a clean-up that trims each category and keeps the empty ones
CleanCategories_keepEmpty(cats) == [i \in 1..Len(cats) |-> TrimSpace(cats[i])]

\* Validate: "Clean up Categories"
CleanCategories(cats) == IF Len(cats) > 0 THEN CleanLoop(cats) ELSE cats

\* a Validate that trims SortBy as it trims the other text attributes
Validate_trimsSortBy(f, envLimit) ==
    LET page  == ClampPage(f.Page)
        limit == ClampLimit(f.Limit, GetMaxLimitFromEnv(envLimit))
    IN  [ Page |-> page,
          Limit |-> limit,
          Offset |-> ComputeOffset(f.Offset, page, limit),
          Search |-> TrimSpace(f.Search),
          Dir |-> NormalizeDir(f.Dir),
          SortBy |-> TrimSpace(f.SortBy),
          StartDate |-> TrimSpace(f.StartDate),
          EndDate |-> TrimSpace(f.EndDate),
          Type |-> TrimSpace(f.Type),
          Status |-> TrimSpace(f.Status),
          Categories |-> CleanCategories(f.Categories),
          DynamicFields |-> f.DynamicFields ]

\* (*FilterOptions).Validate, with the environment value it reads
Validate(f, envLimit) ==
    LET page  == ClampPage(f.Page)
        limit == ClampLimit(f.Limit, GetMaxLimitFromEnv(envLimit))
    IN  [ Page |-> page,
          Limit |-> limit,
          Offset |-> ComputeOffset(f.Offset, page, limit),
          Search |-> TrimSpace(f.Search),
          Dir |-> NormalizeDir(f.Dir),
          SortBy |-> f.SortBy,
          StartDate |-> TrimSpace(f.StartDate),
          EndDate |-> TrimSpace(f.EndDate),
          Type |-> TrimSpace(f.Type),
          Status |-> TrimSpace(f.Status),
          Categories |-> CleanCategories(f.Categories),
          DynamicFields |-> f.DynamicFields ]

----------------------------------------------------------------------------
(* Values of dynamic fields and their string forms *)

\* A dynamic field holds an interface{}: here a record whose field t names
\* the dynamic type and whose field for that type holds the value (the
\* other fields are at their zero values):
\*   "string" s    "int" n    "bool" b    "uuid" u (16 bytes)
\*   "uuids" us ([]uuid.UUID)    "strings" ss ([]string)
\*   "anys" xs ([]interface{} of scalars)
AnyValue(t, s, n, b, u, us, ss, xs) ==
    [t |-> t, s |-> s, n |-> n, b |-> b, u |-> u, us |-> us, ss |-> ss, xs |-> xs]

VString(s) == AnyValue("string", s, 0, FALSE, <<>>, <<>>, <<>>, <<>>)

VInt(n) == AnyValue("int", <<>>, n, FALSE, <<>>, <<>>, <<>>, <<>>)

VBool(b) == AnyValue("bool", <<>>, 0, b, <<>>, <<>>, <<>>, <<>>)

VUUID(u) == AnyValue("uuid", <<>>, 0, FALSE, u, <<>>, <<>>, <<>>)

VUUIDs(us) == AnyValue("uuids", <<>>, 0, FALSE, <<>>, us, <<>>, <<>>)

VStrings(ss) == AnyValue("strings", <<>>, 0, FALSE, <<>>, <<>>, ss, <<>>)

VAnys(xs) == AnyValue("anys", <<>>, 0, FALSE, <<>>, <<>>, <<>>, xs)

HexDigit(n) == IF n < 10 THEN 48 + n ELSE 87 + n

HexByte(b) == <<HexDigit(b \div 16), HexDigit(b % 16)>>

RECURSIVE HexBytes(_)
HexBytes(bs) == IF bs = <<>> THEN <<>> ELSE HexByte(Head(bs)) \o HexBytes(Tail(bs))

\* uuid.UUID.String(): xxxxxxxx-xxxx-xxxx-xxxx-xxxxxxxxxxxx, lower-case hex
UUIDString(u) ==
    HexBytes(SubSeq(u, 1, 4)) \o <<45>> \o HexBytes(SubSeq(u, 5, 6)) \o <<45>> \o
    HexBytes(SubSeq(u, 7, 8)) \o <<45>> \o HexBytes(SubSeq(u, 9, 10)) \o <<45>> \o
    HexBytes(SubSeq(u, 11, 16))

\* fmt.Sprintf("%v", x) for a scalar x
SprintV(x) ==
    CASE x.t = "string" -> x.s
      [] x.t = "int"    -> FormatInt(x.n)
      [] x.t = "bool"   -> IF x.b THEN <<116, 114, 117, 101>> ELSE <<102, 97, 108, 115, 101>>
      [] x.t = "uuid"   -> UUIDString(x.u)

\* formatCacheKeyField: fieldName ":" fieldValue
formatCacheKeyField(fieldName, fieldValue) == fieldName \o <<58>> \o fieldValue

\* the slice case without the sort of the stringified elements
handleSliceValue_noSort(ss) ==
    IF Len(ss) = 0 THEN [value |-> EmptyStr, hasValue |-> FALSE]
    ELSE [value |-> Join(ss, <<44>>), hasValue |-> TRUE]

\* handleSliceValue on a []string: the elements sorted and joined by ","
handleSliceValue(ss) ==
    IF Len(ss) = 0 THEN [value |-> EmptyStr, hasValue |-> FALSE]
    ELSE [value |-> Join(SortStrings(ss), <<44>>), hasValue |-> TRUE]

\* handlePtrValue on a non-nil *int
handlePtrValue(n) ==
    LET value == FormatInt(n) IN [value |-> value, hasValue |-> value # EmptyStr]

\* handleNumericValue
handleNumericValue(n) ==
    LET value == FormatInt(n) IN [value |-> value, hasValue |-> value # <<48>>]

\* handleFieldValue, case reflect.String
handleStringValue(s) == [value |-> s, hasValue |-> s # EmptyStr]

\* handleFieldValue on the Offset field: a nil pointer has no value
handleOffsetValue(offset) ==
    IF ~offset.set THEN [value |-> EmptyStr, hasValue |-> FALSE]
    ELSE handlePtrValue(offset.v)

\* the fields of FilterOptions that carry a query tag, in declaration order,
\* each with the result of handleFieldValue
FixedFieldValues(f) ==
    << [tag |-> <<112, 97, 103, 101>>, r |-> handleNumericValue(f.Page)],
       [tag |-> <<108, 105, 109, 105, 116>>, r |-> handleNumericValue(f.Limit)],
       [tag |-> <<111, 102, 102, 115, 101, 116>>, r |-> handleOffsetValue(f.Offset)],
       [tag |-> <<113>>, r |-> handleStringValue(f.Search)],
       [tag |-> <<115, 111, 114, 116>>, r |-> handleStringValue(f.Dir)],
       [tag |-> <<115, 111, 114, 116, 95, 98, 121>>, r |-> handleStringValue(f.SortBy)],
       [tag |-> <<115, 116, 97, 114, 116, 95, 100, 97, 116, 101>>,
        r |-> handleStringValue(f.StartDate)],
       [tag |-> <<101, 110, 100, 95, 100, 97, 116, 101>>, r |-> handleStringValue(f.EndDate)],
       [tag |-> <<116, 121, 112, 101>>, r |-> handleStringValue(f.Type)],
       [tag |-> <<115, 116, 97, 116, 117, 115>>, r |-> handleStringValue(f.Status)],
       [tag |-> <<99, 97, 116, 101, 103, 111, 114, 105, 101, 115>>,
        r |-> handleSliceValue(f.Categories)] >>

\* GenerateCacheKey, "Handle standard fields": the segments of the fields
\* that have a value
RECURSIVE FixedSegments(_)
FixedSegments(fvs) ==
    IF fvs = <<>> THEN <<>>
    ELSE IF Head(fvs).r.hasValue
         THEN <<formatCacheKeyField(Head(fvs).tag, Head(fvs).r.value)>>
              \o FixedSegments(Tail(fvs))
         ELSE FixedSegments(Tail(fvs))

\* sortDynamicFields, the type switch: the string form of one value
DynamicValueString(x) ==
    CASE x.t = "uuid"    -> UUIDString(x.u)
      [] x.t = "uuids"   -> Join(SortStrings([i \in 1..Len(x.us) |-> UUIDString(x.us[i])]), <<44>>)
      [] x.t = "strings" -> Join(SortStrings(x.ss), <<44>>)
      [] x.t = "anys"    -> Join(SortStrings([i \in 1..Len(x.xs) |-> SprintV(x.xs[i])]), <<44>>)
      [] OTHER           -> SprintV(x)

RECURSIVE DynamicSegments(_, _)
DynamicSegments(fields, keys) ==
    IF keys = <<>> THEN <<>>
    ELSE LET value == DynamicValueString(fields[Head(keys)])
         IN  IF value # EmptyStr
             THEN <<formatCacheKeyField(Head(keys), value)>>
                  \o DynamicSegments(fields, Tail(keys))
             ELSE DynamicSegments(fields, Tail(keys))

\* sortDynamicFields: order is the order in which "for k := range fields"
\* delivers the keys; the keys are sorted before the segments are built
sortDynamicFields(fields, order) == DynamicSegments(fields, SortStrings(order))

\* the effect of sortDynamicFields on the map it is given: sort.Strings(v)
\* sorts a []string value in place, and the slice shares its backing array
\* with the caller's map entry
SortedInPlace(fields) ==
    [k \in DOMAIN fields |->
        IF fields[k].t = "strings"
        THEN VStrings(SortStrings(fields[k].ss))
        ELSE fields[k]]

\* goencryption.Sha256Hash: the hex digest, kept abstract and injective
Sha256Hash(s) == [sha256 |-> s]

\* a GenerateCacheKey that sorts the fixed segments and the dynamic segments
\* as two groups, the fixed group first
GenerateCacheKey_grouped(f, redisKeyPrefix, order) ==
    LET fixed        == FixedSegments(FixedFieldValues(f))
        dynamic      == IF ~f.DynamicFields.isNil /\ Len(order) > 0
                        THEN sortDynamicFields(f.DynamicFields.m, order)
                        ELSE <<>>
        sortedFields == SortStrings(fixed) \o SortStrings(dynamic)
        concatenated == Join(sortedFields, <<58>>)
    IN  <<redisKeyPrefix \o <<108, 105, 115, 116, 58>>, Sha256Hash(concatenated)>>

\* FilterOptions.GenerateCacheKey: the key returned for filter f when the
\* map iteration delivers the dynamic keys in the given order
GenerateCacheKey(f, redisKeyPrefix, order) ==
    LET fixed        == FixedSegments(FixedFieldValues(f))
        dynamic      == IF ~f.DynamicFields.isNil /\ Len(order) > 0
                        THEN sortDynamicFields(f.DynamicFields.m, order)
                        ELSE <<>>
        sortedFields == SortStrings(fixed \o dynamic)
        concatenated == Join(sortedFields, <<58>>)
    IN  <<redisKeyPrefix \o <<108, 105, 115, 116, 58>>, Sha256Hash(concatenated)>>

\* the filter as GenerateCacheKey leaves it: the receiver is a copy, but the
\* map and the slices in it are shared with the caller's value
AfterGenerateCacheKey(f) ==
    IF ~f.DynamicFields.isNil /\ DOMAIN f.DynamicFields.m # {}
    THEN [f EXCEPT !.DynamicFields.m = SortedInPlace(f.DynamicFields.m)]
    ELSE f

----------------------------------------------------------------------------
(* ParseURLValues *)

IsHex(c) == IsDigit(c) \/ (c >= 97 /\ c <= 102) \/ (c >= 65 /\ c <= 70)

HexVal(c) == IF IsDigit(c) THEN c - 48 ELSE IF c >= 97 THEN c - 87 ELSE c - 55

\* the 16 bytes spelled by 32 hex digits
HexPairs(h) == [i \in 1..16 |-> HexVal(h[2 * i - 1]) * 16 + HexVal(h[2 * i])]

UUIDNil == [i \in 1..16 |-> 0]

\* uuid.Parse on the 36-byte form xxxxxxxx-xxxx-xxxx-xxxx-xxxxxxxxxxxx
UUIDParse36(s) ==
    LET h == SubSeq(s, 1, 8) \o SubSeq(s, 10, 13) \o SubSeq(s, 15, 18)
             \o SubSeq(s, 20, 23) \o SubSeq(s, 25, 36)
    IN  IF s[9] = 45 /\ s[14] = 45 /\ s[19] = 45 /\ s[24] = 45
           /\ \A i \in 1..32 : IsHex(h[i])
        THEN [ok |-> TRUE, val |-> HexPairs(h)]
        ELSE [ok |-> FALSE, val |-> UUIDNil]

\* uuid.Parse: the canonical form, the urn:uuid: form, the braced form and
\* the 32 hex digit form; any other length is an error
UUIDParse(s) ==
    CASE Len(s) = 36 -> UUIDParse36(s)
      [] Len(s) = 45 ->
            IF ToLower(SubSeq(s, 1, 9)) = <<117, 114, 110, 58, 117, 117, 105, 100, 58>>
            THEN UUIDParse36(SubSeq(s, 10, 45))
            ELSE [ok |-> FALSE, val |-> UUIDNil]
      [] Len(s) = 38 -> UUIDParse36(SubSeq(s, 2, 37))
      [] Len(s) = 32 ->
            IF \A i \in 1..32 : IsHex(s[i])
            THEN [ok |-> TRUE, val |-> HexPairs(s)]
            ELSE [ok |-> FALSE, val |-> UUIDNil]
      [] OTHER -> [ok |-> FALSE, val |-> UUIDNil]

\* parseUUID: the empty string is uuid.Nil without an error
parseUUID(value) ==
    IF value = EmptyStr THEN [ok |-> TRUE, val |-> UUIDNil] ELSE UUIDParse(value)

\* handleDynamicUUIDSlice: all values as identifiers, or failure
handleDynamicUUIDSlice(vals) ==
    IF \A i \in 1..Len(vals) : parseUUID(vals[i]).ok
    THEN [ok |-> TRUE, val |-> [i \in 1..Len(vals) |-> parseUUID(vals[i]).val]]
    ELSE [ok |-> FALSE, val |-> <<>>]

\* handleDynamicField: the value stored for a parameter that is no fixed
\* attribute
handleDynamicField(vals) ==
    IF Len(vals) = 1
    THEN IF parseUUID(vals[1]).ok
         THEN VUUID(parseUUID(vals[1]).val)
         ELSE VString(vals[1])
    ELSE IF handleDynamicUUIDSlice(vals).ok
         THEN VUUIDs(handleDynamicUUIDSlice(vals).val)
         ELSE VStrings(vals)

\* url.Values.Get: the first value of the parameter, "" when there is none
Get(values, name) ==
    IF name \in DOMAIN values /\ Len(values[name]) > 0 THEN values[name][1] ELSE EmptyStr

\* the query tags of the fields of FilterOptions (knownParams)
KnownParams ==
    { <<112, 97, 103, 101>>, <<108, 105, 109, 105, 116>>, <<111, 102, 102, 115, 101, 116>>,
      <<113>>, <<115, 111, 114, 116>>, <<115, 111, 114, 116, 95, 98, 121>>,
      <<115, 116, 97, 114, 116, 95, 100, 97, 116, 101>>, <<101, 110, 100, 95, 100, 97, 116, 101>>,
      <<116, 121, 112, 101>>, <<115, 116, 97, 116, 117, 115>>,
      <<99, 97, 116, 101, 103, 111, 114, 105, 101, 115>> }

\* a numeric field that ignores a value it cannot parse
handleNumericField_lenient(value) ==
    IF value = EmptyStr \/ ~ParseInt(value).ok
    THEN [err |-> FALSE, assign |-> FALSE, val |-> 0]
    ELSE [err |-> FALSE, assign |-> TRUE, val |-> ParseInt(value).val]

\* handleNumericField: err when strconv.ParseInt fails, else the value to set
handleNumericField(value) ==
    IF value = EmptyStr THEN [err |-> FALSE, assign |-> FALSE, val |-> 0]
    ELSE IF ~ParseInt(value).ok THEN [err |-> TRUE, assign |-> FALSE, val |-> 0]
    ELSE [err |-> FALSE, assign |-> TRUE, val |-> ParseInt(value).val]

\* handleStringSlice: split at "," and trim each part
handleStringSlice(value) ==
    LET parts == Split(value, 44) IN [i \in 1..Len(parts) |-> TrimSpace(parts[i])]

\* handleKnownFields, one field: values.Get(queryTag) != "" guards the set
NumericOf(values, name) ==
    IF Get(values, name) # EmptyStr THEN handleNumericField(Get(values, name))
    ELSE [err |-> FALSE, assign |-> FALSE, val |-> 0]

StringOf(values, name, old) ==
    IF Get(values, name) # EmptyStr THEN Get(values, name) ELSE old

\* handleKnownFields: the fields are set in declaration order and the first
\* failing field ends the loop with "error setting field <Name>"; errField
\* is the Go name of that field, "" when there is no error
handleKnownFields(filter, values) ==
    LET page   == NumericOf(values, <<112, 97, 103, 101>>)
        limit  == NumericOf(values, <<108, 105, 109, 105, 116>>)
        offset == NumericOf(values, <<111, 102, 102, 115, 101, 116>>)
        cats   == Get(values, <<99, 97, 116, 101, 103, 111, 114, 105, 101, 115>>)
        f1 == [filter EXCEPT !.Page = IF page.assign THEN page.val ELSE @]
        f2 == [f1 EXCEPT !.Limit = IF limit.assign THEN limit.val ELSE @]
        \* reflect.Ptr: a nil Offset is allocated before the parse
        f3 == [f2 EXCEPT !.Offset =
                  IF Get(values, <<111, 102, 102, 115, 101, 116>>) # EmptyStr
                  THEN [set |-> TRUE, v |-> IF offset.assign THEN offset.val ELSE @.v]
                  ELSE @]
        f4 == [f3 EXCEPT
                 !.Search = StringOf(values, <<113>>, @),
                 !.Dir = StringOf(values, <<115, 111, 114, 116>>, @),
                 !.SortBy = StringOf(values, <<115, 111, 114, 116, 95, 98, 121>>, @),
                 !.StartDate = StringOf(values, <<115, 116, 97, 114, 116, 95, 100, 97, 116, 101>>, @),
                 !.EndDate = StringOf(values, <<101, 110, 100, 95, 100, 97, 116, 101>>, @),
                 !.Type = StringOf(values, <<116, 121, 112, 101>>, @),
                 !.Status = StringOf(values, <<115, 116, 97, 116, 117, 115>>, @),
                 !.Categories = IF cats # EmptyStr THEN handleStringSlice(cats) ELSE @]
    IN  IF page.err THEN [errField |-> "Page", filter |-> filter]
        ELSE IF limit.err THEN [errField |-> "Limit", filter |-> f1]
        ELSE IF offset.err THEN [errField |-> "Offset", filter |-> f3]
        ELSE [errField |-> "", filter |-> f4]

\* a parser that treats a fixed-attribute parameter with an empty value as
\* a dynamic one
DynamicOf_emptyKnown(values) ==
    LET names == {n \in DOMAIN values :
                     /\ n \notin KnownParams \/ Get(values, n) = EmptyStr
                     /\ Len(values[n]) > 0}
    IN  [n \in names |-> handleDynamicField(values[n])]

\* ParseURLValues, "Handle dynamic fields": every parameter that is not
\* known and has at least one value
DynamicOf(values) ==
    LET names == {n \in DOMAIN values : n \notin KnownParams /\ Len(values[n]) > 0}
    IN  [n \in names |-> handleDynamicField(values[n])]

\* ParseURLValues: (nil, err) when a fixed field fails, else the validated
\* filter and no error
ParseURLValues(values, envLimit) ==
    LET start == [ZeroFilter EXCEPT !.DynamicFields = [isNil |-> FALSE, m |-> <<>>]]
        known == handleKnownFields(start, values)
    IN  IF known.errField # ""
        THEN [isNil |-> TRUE, filter |-> ZeroFilter, errField |-> known.errField]
        ELSE [isNil |-> FALSE,
              filter |-> Validate([known.filter EXCEPT !.DynamicFields.m = DynamicOf(values)],
                                  envLimit),
              errField |-> ""]

----------------------------------------------------------------------------
(* Inputs *)

\* SetDynamicField, as an update of the filter value
SetDynamicField(f, k, value) ==
    IF f.DynamicFields.isNil
    THEN [f EXCEPT !.DynamicFields = [isNil |-> FALSE, m |-> [x \in {k} |-> value]]]
    ELSE [f EXCEPT !.DynamicFields.m =
             [x \in (DOMAIN f.DynamicFields.m) \cup {k} |->
                 IF x = k THEN value ELSE f.DynamicFields.m[x]]]

\* 123e4567-e89b-12d3-a456-426614174000 and 987fcdeb-51a2-43d7-9012-345678901234
UUID1 == <<18, 62, 69, 103, 232, 155, 18, 211, 164, 86, 66, 102, 20, 23, 64, 0>>

UUID2 == <<152, 127, 205, 235, 81, 162, 67, 215, 144, 18, 52, 86, 120, 144, 18, 52>>

\* values a caller assigns to Page, Limit and Offset
PageVals == {0 - 2, 3, MaxInt}

LimitVals == {0 - 1, 3, MaxLimitDefault + 1}

OffsetVals == {0, 5}

\* " x "
TextVals == {<<32, 120, 32>>}

\* " n "
PaddedText == <<32, 110, 32>>

\* "asc", "Asc", " asc", "foo"
DirVals == {<<97, 115, 99>>, <<65, 115, 99>>, <<32, 97, 115, 99>>, <<102, 111, 111>>}

\* ["b", " a "], [" ", "c"], ["  "]
CategoryVals == {<< <<98>>, <<32, 97, 32>> >>, << <<32>>, <<99>> >>, << <<32, 32>> >>}

\* the dynamic fields a caller sets: "a" to one of "1", "", 2 and a UUID,
\* "tags" to one of two UUIDs, ["b", "a"] and [2, "1", true]
DynSets ==
    ({<<97>>} \X {VString(<<49>>), VString(EmptyStr), VInt(2), VUUID(UUID1)})
    \cup
    ({<<116, 97, 103, 115>>} \X
        { VUUIDs(<<UUID2, UUID1>>), VStrings(<< <<98>>, <<97>> >>),
          VAnys(<<VInt(2), VString(<<49>>), VBool(TRUE)>>) })

\* "" and "x:"
PrefixVals == {EmptyStr, <<120, 58>>}

\* MAX_LIMIT_PAGINATE: "2", "0", "abc" (and not set: "")
EnvVals == {<<50>>, <<48>>, <<97, 98, 99>>}

\* a url.Values with the given names and value lists
Values(pairs) ==
    [n \in {pairs[i][1] : i \in 1..Len(pairs)} |->
        pairs[CHOOSE i \in 1..Len(pairs) : pairs[i][1] = n][2]]

\* "page" with the largest int as its value, and limit=100
RawMaxPage ==
    Values(<< <<<<112, 97, 103, 101>>, <<FormatInt(MaxInt)>> >>,
              <<<<108, 105, 109, 105, 116>>, << <<49, 48, 48>> >> >> >>)

\* "page" with a value one above the largest int
RawPageOutOfRange == Values(<< <<<<112, 97, 103, 101>>, <<FormatInt(MaxInt + 1)>> >> >>)

\* the raw parameter sets handed to ParseURLValues
RawVals ==
    { RawMaxPage, RawPageOutOfRange,
      \* no parameters
      Values(<<>>),
      \* page=2 limit=10 q=" x " sort=asc
      Values(<<<<<<112, 97, 103, 101>>, <<<<50>>>>>>, <<<<108, 105, 109, 105, 116>>, <<<<49, 48>>>>>>, <<<<113>>, <<<<32, 120, 32>>>>>>, <<<<115, 111, 114, 116>>, <<<<97, 115, 99>>>>>>>>),
      \* page=abc limit=10
      Values(<<<<<<112, 97, 103, 101>>, <<<<97, 98, 99>>>>>>, <<<<108, 105, 109, 105, 116>>, <<<<49, 48>>>>>>>>),
      \* page=1 limit=1x
      Values(<<<<<<112, 97, 103, 101>>, <<<<49>>>>>>, <<<<108, 105, 109, 105, 116>>, <<<<49, 120>>>>>>>>),
      \* page=3 offset=-
      Values(<<<<<<112, 97, 103, 101>>, <<<<51>>>>>>, <<<<111, 102, 102, 115, 101, 116>>, <<<<45>>>>>>>>),
      \* page=x limit=y
      Values(<<<<<<112, 97, 103, 101>>, <<<<120>>>>>>, <<<<108, 105, 109, 105, 116>>, <<<<121>>>>>>>>),
      \* page=["", "zz"] a=<uuid>
      Values(<<<<<<112, 97, 103, 101>>, <<<<>>, <<122, 122>>>>>>, <<<<97>>, <<<<49, 50, 51, 101, 52, 53, 54, 55, 45, 101, 56, 57, 98, 45, 49, 50, 100, 51, 45, 97, 52, 53, 54, 45, 52, 50, 54, 54, 49, 52, 49, 55, 52, 48, 48, 48>>>>>>>>),
      \* offset=-5
      Values(<<<<<<111, 102, 102, 115, 101, 116>>, <<<<45, 53>>>>>>>>),
      \* page=" 1"
      Values(<<<<<<112, 97, 103, 101>>, <<<<32, 49>>>>>>>>),
      \* page=2 offset=5 a=x
      Values(<<<<<<112, 97, 103, 101>>, <<<<50>>>>>>, <<<<111, 102, 102, 115, 101, 116>>, <<<<53>>>>>>, <<<<97>>, <<<<120>>>>>>>>),
      \* categories="b, a,,c" sort_by=" n "
      Values(<<<<<<99, 97, 116, 101, 103, 111, 114, 105, 101, 115>>, <<<<98, 44, 32, 97, 44, 44, 99>>>>>>, <<<<115, 111, 114, 116, 95, 98, 121>>, <<<<32, 110, 32>>>>>>>>),
      \* tags=<uuid>,<UUID> a=''
      Values(<<<<<<116, 97, 103, 115>>, <<<<49, 50, 51, 101, 52, 53, 54, 55, 45, 101, 56, 57, 98, 45, 49, 50, 100, 51, 45, 97, 52, 53, 54, 45, 52, 50, 54, 54, 49, 52, 49, 55, 52, 48, 48, 48>>, <<57, 56, 55, 70, 67, 68, 69, 66, 45, 53, 49, 97, 50, 45, 52, 51, 100, 55, 45, 57, 48, 49, 50, 45, 51, 52, 53, 54, 55, 56, 57, 48, 49, 50, 51, 52>>>>>>, <<<<97>>, <<<<>>>>>>>>),
      \* tags=b,a a=[]
      Values(<<<<<<116, 97, 103, 115>>, <<<<98>>, <<97>>>>>>, <<<<97>>, <<>>>>>>),
      \* tags=<uuid>,x
      Values(<<<<<<116, 97, 103, 115>>, <<<<49, 50, 51, 101, 52, 53, 54, 55, 45, 101, 56, 57, 98, 45, 49, 50, 100, 51, 45, 97, 52, 53, 54, 45, 52, 50, 54, 54, 49, 52, 49, 55, 52, 48, 48, 48>>, <<120>>>>>>>>),
      \* tags='',<uuid>
      Values(<<<<<<116, 97, 103, 115>>, <<<<>>, <<49, 50, 51, 101, 52, 53, 54, 55, 45, 101, 56, 57, 98, 45, 49, 50, 100, 51, 45, 97, 52, 53, 54, 45, 52, 50, 54, 54, 49, 52, 49, 55, 52, 48, 48, 48>>>>>>>>) }

----------------------------------------------------------------------------
(* The state machine: a caller's filter and the calls made on it *)

VARIABLES
    filter,   \* the caller's FilterOptions value
    env,      \* MAX_LIMIT_PAGINATE in the process environment ("" = not set)
    op,       \* the last operation
    pre,      \* the filter as it was when the last Validate or GenerateCacheKey began
    key,      \* the key the last GenerateCacheKey returned
    prefix,   \* the prefix it was given
    raw,      \* the parameters of the last ParseURLValues
    res,      \* what the last ParseURLValues returned
    nassign,  \* the number of caller operations so far
    supplied, \* whether the caller has supplied the filter's offset itself
    resp,     \* the PaginatedResponse the last GeneratePaginatedResponse returned
    gor,      \* the goroutines running GenerateCacheKey on the filter
    ser,      \* a StandardErrorResponse
    ser0,     \* the response as it was when the last method call on it began
    earg,     \* the arguments of that call
    sent,     \* what the last JSON call wrote to the client
    dbres,    \* what the last persistence-error translation returned
    conv      \* the last field name converted, and its two conversions

pageVars == <<filter, env, pre, key, prefix, raw, res, nassign, supplied>>

errVars == <<ser, ser0, earg, sent, dbres, conv>>

vars == <<pageVars, op, resp, gor, errVars>>

NoKey == <<EmptyStr, Sha256Hash(EmptyStr)>>

NoRes == [isNil |-> TRUE, filter |-> ZeroFilter, errField |-> ""]

\* the orders in which a range over a map with key set S can deliver the keys
Orders(S) ==
    {o \in [1..Cardinality(S) -> S] : \A i, j \in 1..Cardinality(S) : i # j => o[i] # o[j]}

\* no PaginatedResponse has been built
NoResp == [TotalData |-> 0, TotalPage |-> 0, CurrentPage |-> 0, PageSize |-> 0]

\* no StandardErrorResponse has been constructed
NoSer == [Code |-> 0, Message |-> EmptyStr, Errors |-> <<>>, RequestID |-> EmptyStr]

\* an error value: nil, a validator.ValidationErrors (its field errors), a
\* *json.UnmarshalTypeError (Field and Type), or another error (the sentinel
\* errors errors.Is finds in its chain, and its text)
ErrorValue(kind, fes, ufield, utype, is, text) ==
    [kind |-> kind, fes |-> fes, ufield |-> ufield, utype |-> utype,
     is |-> is, text |-> text]

NilError == ErrorValue("nil", <<>>, EmptyStr, EmptyStr, {}, EmptyStr)

\* no call has been made: no field, message, error or request header
NoArg == [field |-> EmptyStr, message |-> EmptyStr, err |-> NilError, header |-> EmptyStr]

NoSent == [status |-> 0, body |-> NoSer]

NoDbRes == [status |-> 0, message |-> EmptyStr]

\* no field name has been converted
NoConv == [name |-> EmptyStr, snake |-> EmptyStr, human |-> EmptyStr]

ErrIdle ==
    /\ ser = NoSer
    /\ ser0 = NoSer
    /\ earg = NoArg
    /\ sent = NoSent
    /\ dbres = NoDbRes
    /\ conv = NoConv

Init ==
    /\ filter = ZeroFilter
    /\ env = EmptyStr
    /\ op = "new"
    /\ pre = ZeroFilter
    /\ key = NoKey
    /\ prefix = EmptyStr
    /\ raw = <<>>
    /\ res = NoRes
    /\ nassign = 0
    /\ supplied = FALSE
    /\ resp = NoResp
    /\ gor = <<>>
    /\ ErrIdle

\* os.Setenv("MAX_LIMIT_PAGINATE", v) by the process
Setenv(v) ==
    /\ nassign < MaxAssign
    /\ env' = v
    /\ op' = "Setenv"
    /\ pre' = ZeroFilter
    /\ key' = NoKey
    /\ prefix' = EmptyStr
    /\ raw' = <<>>
    /\ res' = NoRes
    /\ nassign' = nassign + 1
    /\ UNCHANGED <<filter, supplied, resp, gor, errVars>>

\* a caller's assignment to exported fields of its filter; offsetGiven when
\* the assignment is to Offset
AssignField(f, offsetGiven) ==
    /\ nassign < MaxAssign
    /\ filter' = f
    /\ op' = "assign"
    /\ pre' = ZeroFilter
    /\ key' = NoKey
    /\ prefix' = EmptyStr
    /\ raw' = <<>>
    /\ res' = NoRes
    /\ nassign' = nassign + 1
    /\ supplied' = (supplied \/ offsetGiven)
    /\ UNCHANGED <<env, resp, gor, errVars>>

Assign(f) == AssignField(f, FALSE)

AssignPage == \E v \in PageVals : Assign([filter EXCEPT !.Page = v])

AssignLimit == \E v \in LimitVals : Assign([filter EXCEPT !.Limit = v])

AssignOffset ==
    \E v \in OffsetVals : AssignField([filter EXCEPT !.Offset = [set |-> TRUE, v |-> v]], TRUE)

AssignSearch == \E v \in TextVals : Assign([filter EXCEPT !.Search = v])

AssignDir == \E v \in DirVals : Assign([filter EXCEPT !.Dir = v])

AssignSortBy == Assign([filter EXCEPT !.SortBy = PaddedText])

AssignDates == Assign([filter EXCEPT !.StartDate = PaddedText, !.EndDate = PaddedText])

AssignTypeStatus == Assign([filter EXCEPT !.Type = PaddedText, !.Status = PaddedText])

AssignCategories == \E v \in CategoryVals : Assign([filter EXCEPT !.Categories = v])

SetDynamicFieldCall == \E kv \in DynSets : Assign(SetDynamicField(filter, kv[1], kv[2]))

ValidateCall ==
    /\ filter' = Validate(filter, env)
    /\ pre' = filter
    /\ op' = "Validate"
    /\ key' = NoKey
    /\ prefix' = EmptyStr
    /\ raw' = <<>>
    /\ res' = NoRes
    /\ UNCHANGED <<env, nassign, supplied, resp, gor, errVars>>

GenerateCacheKeyCall ==
    \E p \in PrefixVals :
      \E order \in Orders(IF filter.DynamicFields.isNil THEN {} ELSE DOMAIN filter.DynamicFields.m) :
        /\ key' = GenerateCacheKey(filter, p, order)
        /\ filter' = AfterGenerateCacheKey(filter)
        /\ pre' = filter
        /\ prefix' = p
        /\ op' = "GenerateCacheKey"
        /\ raw' = <<>>
        /\ res' = NoRes
        /\ UNCHANGED <<env, nassign, supplied, resp, gor, errVars>>

\* on success the caller goes on with the returned filter
ParseURLValuesCall ==
    \E values \in RawVals :
        /\ nassign < MaxAssign
        /\ res' = ParseURLValues(values, env)
        /\ raw' = values
        /\ filter' = IF res'.isNil THEN filter ELSE res'.filter
        /\ op' = "ParseURLValues"
        /\ pre' = ZeroFilter
        /\ key' = NoKey
        /\ prefix' = EmptyStr
        /\ nassign' = nassign + 1
        /\ supplied' = IF res'.isNil THEN supplied ELSE Get(values, <<111, 102, 102, 115, 101, 116>>) # EmptyStr
        /\ UNCHANGED <<env, resp, gor, errVars>>

Next ==
    \/ \E v \in EnvVals : Setenv(v)
    \/ AssignPage
    \/ AssignLimit
    \/ AssignOffset
    \/ AssignSearch
    \/ AssignDir
    \/ AssignSortBy
    \/ AssignDates
    \/ AssignTypeStatus
    \/ AssignCategories
    \/ SetDynamicFieldCall
    \/ ValidateCall
    \/ GenerateCacheKeyCall
    \/ ParseURLValuesCall

Spec == Init /\ [][Next]_vars

----------------------------------------------------------------------------
(* Properties of GenerateCacheKey *)

DynamicKeys(f) == IF f.DynamicFields.isNil THEN {} ELSE DOMAIN f.DynamicFields.m

\* the filter f with its dynamic fields inserted one by one, in the order o,
\* into a filter that has none
RECURSIVE InsertAll(_, _, _)
InsertAll(f, m, o) ==
    IF o = <<>> THEN f
    ELSE InsertAll(SetDynamicField(f, Head(o), m[Head(o)]), m, Tail(o))

Reinserted(f, o) ==
    InsertAll([f EXCEPT !.DynamicFields = [isNil |-> TRUE, m |-> <<>>]], f.DynamicFields.m, o)

\* C1: the key GenerateCacheKey returned is the key of the same filter for
\* every order in which the map delivers its dynamic keys, of every filter
\* with the same fixed attributes whose dynamic fields were inserted in any
\* other order, and of a repeated call on the filter as the call left it.
C1_CacheKeyDeterministic ==
    op = "GenerateCacheKey" =>
        /\ \A o \in Orders(DynamicKeys(pre)) : GenerateCacheKey(pre, prefix, o) = key
        /\ \A ins \in Orders(DynamicKeys(pre)) :
             \A o \in Orders(DynamicKeys(pre)) :
                GenerateCacheKey(Reinserted(pre, ins), prefix, o) = key
        /\ \A o \in Orders(DynamicKeys(filter)) : GenerateCacheKey(filter, prefix, o) = key

\* a key was generated for a filter with two dynamic fields
C1_Witness ==
    /\ op = "GenerateCacheKey"
    /\ Cardinality(DynamicKeys(pre)) = 2

\* the rearrangements of the sequence s
SeqPermutations(s) == {[i \in 1..Len(s) |-> s[o[i]]] : o \in Orders(1..Len(s))}

\* the value x with the elements of its sequence rearranged
PermutedValues(x) ==
    CASE x.t = "strings" -> {VStrings(q) : q \in SeqPermutations(x.ss)}
      [] x.t = "uuids"   -> {VUUIDs(q) : q \in SeqPermutations(x.us)}
      [] x.t = "anys"    -> {VAnys(q) : q \in SeqPermutations(x.xs)}
      [] OTHER           -> {x}

\* the filters that differ from f by the element order of one collection
Rearranged(f) ==
    {[f EXCEPT !.Categories = c] : c \in SeqPermutations(f.Categories)}
    \cup
    UNION {{[f EXCEPT !.DynamicFields.m[k] = x] : x \in PermutedValues(f.DynamicFields.m[k])} :
              k \in DynamicKeys(f)}

\* C2: every filter that differs from the one the key was generated for only
\* by the element order of Categories or of a sequence-valued dynamic field
\* has the same key for the same prefix.
C2_ElementOrderIrrelevant ==
    op = "GenerateCacheKey" =>
        \A g \in Rearranged(pre) :
            \A o \in Orders(DynamicKeys(g)) : GenerateCacheKey(g, prefix, o) = key

\* a key was generated for a filter with two different categories and a
\* dynamic sequence of several elements
C2_Witness ==
    /\ op = "GenerateCacheKey"
    /\ Len(pre.Categories) = 2
    /\ pre.Categories[1] # pre.Categories[2]
    /\ \E k \in DynamicKeys(pre) : Cardinality(PermutedValues(pre.DynamicFields.m[k])) > 1

\* C3: GenerateCacheKey leaves every fixed attribute and every dynamic field
\* of its filter, the element order of sequences included, as it was.
C3_CacheKeyReadOnly == op = "GenerateCacheKey" => filter = pre

----------------------------------------------------------------------------
(* Properties of Validate *)

\* C4: validating a validated filter again, under the same configuration,
\* changes no field.
C4_ValidateIdempotent == op = "Validate" => Validate(filter, env) = filter

\* a Validate call that changed its filter
C4_Witness ==
    /\ op = "Validate"
    /\ filter # pre
    /\ pre.Dir # EmptyStr
    /\ filter.Dir # pre.Dir

\* the maximum the configuration stands for: its value, or 100 when it is
\* not set, is no int numeral or is less than 1
ConfiguredMaxLimit(e) ==
    IF e = EmptyStr \/ ~ParseInt(e).ok THEN 100
    ELSE IF ParseInt(e).val < 1 THEN 100
    ELSE ParseInt(e).val

\* C5: after Validate, Page >= 1 and 1 <= Limit <= maxLimit; a Page or Limit
\* below 1 has become 1, a Limit above maxLimit has become maxLimit, and
\* values in range are kept.
C5_PageLimitClamped ==
    op = "Validate" =>
        LET maxLimit == ConfiguredMaxLimit(env)
        IN  /\ filter.Page >= 1
            /\ filter.Limit >= 1 /\ filter.Limit <= maxLimit
            /\ filter.Page = (IF pre.Page < 1 THEN 1 ELSE pre.Page)
            /\ pre.Limit < 1 => filter.Limit = 1
            /\ pre.Limit > maxLimit => filter.Limit = maxLimit
            /\ (pre.Limit >= 1 /\ pre.Limit <= maxLimit) => filter.Limit = pre.Limit

\* a Validate call that cut a limit down to a configured maximum
C5_Witness ==
    /\ op = "Validate"
    /\ env # EmptyStr
    /\ ConfiguredMaxLimit(env) # 100
    /\ pre.Limit > ConfiguredMaxLimit(env)
    /\ filter.Limit = ConfiguredMaxLimit(env)

\* C6: Validate sets an unset Offset to (Page-1)*Limit, the product Go's int
\* arithmetic yields for the clamped Page and Limit, and leaves an Offset
\* that is set as it is.
C6_OffsetDefault ==
    op = "Validate" =>
        /\ filter.Offset.set
        /\ ~pre.Offset.set => filter.Offset.v = WrapInt((filter.Page - 1) * filter.Limit)
        /\ pre.Offset.set => filter.Offset = pre.Offset

\* a Validate call that computed an offset from a page it had to clamp
C6_Witness ==
    /\ op = "Validate"
    /\ ~pre.Offset.set
    /\ pre.Page < 1
    /\ pre.Limit > 1
    /\ filter.Offset.v = 0

\* s is "asc" in some letter case
IsAscIgnoringCase(s) ==
    /\ Len(s) = 3
    /\ s[1] \in {97, 65}
    /\ s[2] \in {115, 83}
    /\ s[3] \in {99, 67}

\* C7: after Validate the sort direction is "ASC" or "DESC", and it is "ASC"
\* exactly when the input was "asc" in some letter case.
C7_DirNormalized ==
    op = "Validate" =>
        /\ filter.Dir \in {<<65, 83, 67>>, <<68, 69, 83, 67>>}
        /\ filter.Dir = <<65, 83, 67>> <=> IsAscIgnoringCase(pre.Dir)

\* a Validate call on a mixed-case "Asc"
C7_Witness ==
    /\ op = "Validate"
    /\ pre.Dir = <<65, 115, 99>>
    /\ filter.Dir = <<65, 83, 67>>

\* s has no leading and no trailing whitespace
IsTrimmed(s) == s = EmptyStr \/ (~IsSpace(s[1]) /\ ~IsSpace(s[Len(s)]))

\* C8: after Validate no string field of the filter (search, sortBy, sort
\* direction, start date, end date, type, status, each category) has leading
\* or trailing whitespace.
C8_AllStringsTrimmed ==
    op = "Validate" =>
        /\ IsTrimmed(filter.Search)
        /\ IsTrimmed(filter.SortBy)
        /\ IsTrimmed(filter.Dir)
        /\ IsTrimmed(filter.StartDate)
        /\ IsTrimmed(filter.EndDate)
        /\ IsTrimmed(filter.Type)
        /\ IsTrimmed(filter.Status)
        /\ \A i \in 1..Len(filter.Categories) : IsTrimmed(filter.Categories[i])

NonEmpty(s) == s # EmptyStr

\* C9: after Validate, Categories is the input sequence with each element
\* trimmed and the elements that trim to "" removed, in the original order.
C9_CategoriesCleaned ==
    op = "Validate" =>
        /\ filter.Categories =
              SelectSeq([i \in 1..Len(pre.Categories) |-> TrimSpace(pre.Categories[i])], NonEmpty)
        /\ \A i \in 1..Len(filter.Categories) : filter.Categories[i] # EmptyStr

\* a Validate call that dropped one category and kept another
C9_Witness ==
    /\ op = "Validate"
    /\ Len(pre.Categories) = 2
    /\ Len(filter.Categories) = 1

----------------------------------------------------------------------------
(* Properties of ParseURLValues *)

\* s is a base-10 integer: an optional sign and one or more digits
IsBase10Integer(s) ==
    LET digits == IF s # EmptyStr /\ s[1] \in {43, 45} THEN Tail(s) ELSE s
    IN  digits # EmptyStr /\ \A i \in 1..Len(digits) : IsDigit(digits[i])

\* the integer attributes, by query name, with the Go names errors use
IntegerAttributes ==
    { [tag |-> <<112, 97, 103, 101>>, name |-> "Page"],
      [tag |-> <<108, 105, 109, 105, 116>>, name |-> "Limit"],
      [tag |-> <<111, 102, 102, 115, 101, 116>>, name |-> "Offset"] }

\* the integer attributes whose first value is not empty and no integer
Offending(values) ==
    {a \in IntegerAttributes :
        Get(values, a.tag) # EmptyStr /\ ~IsBase10Integer(Get(values, a.tag))}

\* C10: when page, limit or offset has a non-empty first value that is no
\* base-10 integer, ParseURLValues returns an error naming such an attribute
\* and a nil filter.
C10_ParseErrorNoFilter ==
    (op = "ParseURLValues" /\ Offending(raw) # {}) =>
        /\ res.isNil
        /\ res.errField \in {a.name : a \in Offending(raw)}

\* a parse of parameters with two offending attributes
C10_Witness ==
    /\ op = "ParseURLValues"
    /\ Cardinality(Offending(raw)) = 2
    /\ res.isNil

----------------------------------------------------------------------------
(* Properties of ParseURLValues: dynamic parameters *)

\* the text is valid UUID syntax as uuid.Parse accepts it; the empty string is not
IsUUIDSyntax(s) == UUIDParse(s).ok

\* the parameter names of the last call that are no fixed attribute and
\* carry n values for some n in the set ns
DynamicNames(ns) == {n \in DOMAIN raw : n \notin KnownParams /\ Len(raw[n]) \in ns}

Stored(n) == res.filter.DynamicFields.m[n]

\* C11: for every parameter name that is no fixed attribute and has exactly
\* one value, a successful ParseURLValues stores the parsed identifier when
\* the value is valid UUID syntax and the raw string, unchanged, when it is
\* not, the empty string included.
C11_SingleDynamicValue ==
    (op = "ParseURLValues" /\ ~res.isNil) =>
        \A n \in DynamicNames({1}) :
            Stored(n) = IF IsUUIDSyntax(raw[n][1])
                        THEN VUUID(UUIDParse(raw[n][1]).val)
                        ELSE VString(raw[n][1])

\* C12: for every parameter name that is no fixed attribute and has two or
\* more values, a successful ParseURLValues stores the identifiers in input
\* order when every value is valid UUID syntax and the raw strings in input
\* order otherwise, never a mixture or a part of them.
C12_MultiDynamicValue ==
    (op = "ParseURLValues" /\ ~res.isNil) =>
        \A n \in DynamicNames(2..4) :
            Stored(n) = IF \A i \in 1..Len(raw[n]) : IsUUIDSyntax(raw[n][i])
                        THEN VUUIDs([i \in 1..Len(raw[n]) |-> UUIDParse(raw[n][i]).val])
                        ELSE VStrings(raw[n])

\* C13: every filter a successful ParseURLValues returns is normalized (Page
\* at least 1, Limit between 1 and the configured maximum, Offset set, sort
\* direction ASC or DESC, text attributes trimmed) and Validate leaves it as
\* it is.
C13_ParsedIsNormalized ==
    (op = "ParseURLValues" /\ ~res.isNil) =>
        /\ res.filter.Page >= 1
        /\ res.filter.Limit >= 1
        /\ res.filter.Limit <= ConfiguredMaxLimit(env)
        /\ res.filter.Offset.set
        /\ res.filter.Dir \in {<<65, 83, 67>>, <<68, 69, 83, 67>>}
        /\ \A s \in {res.filter.Search, res.filter.SortBy, res.filter.StartDate,
                     res.filter.EndDate, res.filter.Type, res.filter.Status} : IsTrimmed(s)
        /\ Validate(res.filter, env) = res.filter

----------------------------------------------------------------------------
(* Properties of GenerateCacheKey: which attributes reach the key *)

\* the name:value segment of an attribute, or nothing when its value is absent
SegmentIf(present, name, value) ==
    IF present THEN <<name \o <<58>> \o value>> ELSE <<>>

\* the segments of the fixed attributes of f whose value is present: a
\* non-empty string, a non-zero integer, a non-empty collection
PresentSegments(f) ==
    SegmentIf(f.Page # 0, <<112, 97, 103, 101>>, FormatInt(f.Page))
    \o SegmentIf(f.Limit # 0, <<108, 105, 109, 105, 116>>, FormatInt(f.Limit))
    \o SegmentIf(f.Offset.set /\ f.Offset.v # 0, <<111, 102, 102, 115, 101, 116>>, FormatInt(f.Offset.v))
    \o SegmentIf(f.Search # EmptyStr, <<113>>, f.Search)
    \o SegmentIf(f.Dir # EmptyStr, <<115, 111, 114, 116>>, f.Dir)
    \o SegmentIf(f.SortBy # EmptyStr, <<115, 111, 114, 116, 95, 98, 121>>, f.SortBy)
    \o SegmentIf(f.StartDate # EmptyStr, <<115, 116, 97, 114, 116, 95, 100, 97, 116, 101>>, f.StartDate)
    \o SegmentIf(f.EndDate # EmptyStr, <<101, 110, 100, 95, 100, 97, 116, 101>>, f.EndDate)
    \o SegmentIf(f.Type # EmptyStr, <<116, 121, 112, 101>>, f.Type)
    \o SegmentIf(f.Status # EmptyStr, <<115, 116, 97, 116, 117, 115>>, f.Status)
    \o SegmentIf(Len(f.Categories) > 0, <<99, 97, 116, 101, 103, 111, 114, 105, 101, 115>>,
                 Join(SortedOf(f.Categories), <<44>>))

\* the segments of the dynamic fields of f, keys in ascending order
DynamicPart(f) ==
    IF f.DynamicFields.isNil THEN <<>>
    ELSE sortDynamicFields(f.DynamicFields.m,
                           CHOOSE o \in Orders(DOMAIN f.DynamicFields.m) : TRUE)

\* C14: a fixed attribute contributes its name:value segment to the digest
\* input of GenerateCacheKey exactly when its value is present; an empty
\* string, a zero page, limit or offset and a nil or empty collection
\* contribute nothing, validated or not.
C14_SegmentIffPresent ==
    op = "GenerateCacheKey" =>
        key[2] = Sha256Hash(Join(SortedOf(PresentSegments(pre) \o DynamicPart(pre)), <<58>>))

\* f with its sort direction folded into the search text: the search text
\* of the result is that of f followed by ":sort:" and the direction of f
Folded(f) ==
    IF f.Search # EmptyStr /\ f.Dir # EmptyStr
    THEN [f EXCEPT !.Search = f.Search \o <<58, 115, 111, 114, 116, 58>> \o f.Dir,
                   !.Dir = EmptyStr]
    ELSE f

\* filters that differ from f in the value of a fixed attribute
Variants(f) ==
    {[f EXCEPT !.Page = v] : v \in PageVals}
    \cup {[f EXCEPT !.Search = v] : v \in TextVals \cup {EmptyStr}}
    \cup {[f EXCEPT !.Dir = v] : v \in DirVals \cup {EmptyStr}}
    \cup {Folded(f)}

\* C15: filters that differ in the value of a present fixed attribute or
\* dynamic field get different keys under the same prefix (the digest being
\* injective, different digest inputs).
C15_DistinctKeys ==
    op = "GenerateCacheKey" =>
        \A g \in Variants(pre) \ {pre} :
            \A order \in Orders(DynamicKeys(g)) :
                GenerateCacheKey(g, prefix, order) # key

----------------------------------------------------------------------------
(* Concurrent GenerateCacheKey calls on one filter.  The receiver is copied
   per call, the map and the []string in it are not: the elements of
   DynamicFields["tags"] are memory the goroutines share.  sort.Strings on a
   short slice is an insertion sort whose swap reads two elements and then
   writes them back one after the other. *)

Goroutines == {1, 2}

TAGS == <<116, 97, 103, 115>>

SharedVals == { <<<<98>>, <<97>>>>, <<<<97>>, <<98>>>>, <<<<99>>, <<98>>, <<97>>>> }

Idle == [pc |-> "call", i |-> 0, j |-> 0, x |-> EmptyStr, y |-> EmptyStr, key |-> NoKey]

\* the []string the goroutines share
Shared == filter.DynamicFields.m[TAGS].ss

InitConc ==
    /\ filter \in {SetDynamicField(ZeroFilter, TAGS, VStrings(ss)) : ss \in SharedVals}
    /\ gor = [p \in Goroutines |-> Idle]
    /\ op = "go"
    /\ env = EmptyStr
    /\ pre = ZeroFilter
    /\ key = NoKey
    /\ prefix = EmptyStr
    /\ raw = <<>>
    /\ res = NoRes
    /\ nassign = 0
    /\ supplied = FALSE
    /\ resp = NoResp
    /\ ErrIdle

ConcFrame == UNCHANGED <<env, pre, key, prefix, raw, res, nassign, supplied, op, resp, errVars>>

\* GenerateCacheKey is entered and reaches sort.Strings(v) for the "tags" entry
Enter(p) ==
    /\ gor[p].pc = "call"
    /\ gor' = [gor EXCEPT ![p].pc = "outer", ![p].i = 2]
    /\ UNCHANGED filter
    /\ ConcFrame

\* the outer loop of the insertion sort: for i := 1; i < n; i++
Outer(p) ==
    /\ gor[p].pc = "outer"
    /\ gor' = IF gor[p].i > Len(Shared)
              THEN [gor EXCEPT ![p].pc = "join"]
              ELSE [gor EXCEPT ![p].pc = "inner", ![p].j = gor[p].i]
    /\ UNCHANGED filter
    /\ ConcFrame

\* the inner loop: for j := i; j > 0 && data[j] < data[j-1]; j--
Inner(p) ==
    /\ gor[p].pc = "inner"
    /\ gor' = IF gor[p].j > 1 /\ StrLess(Shared[gor[p].j], Shared[gor[p].j - 1])
              THEN [gor EXCEPT ![p].pc = "load"]
              ELSE [gor EXCEPT ![p].pc = "outer", ![p].i = gor[p].i + 1]
    /\ UNCHANGED filter
    /\ ConcFrame

\* data[j], data[j-1] = data[j-1], data[j]: the two reads
Load(p) ==
    /\ gor[p].pc = "load"
    /\ gor' = [gor EXCEPT ![p].pc = "store1",
                          ![p].x = Shared[gor[p].j - 1],
                          ![p].y = Shared[gor[p].j]]
    /\ UNCHANGED filter
    /\ ConcFrame

\* the first write: data[j] = x
Store1(p) ==
    /\ gor[p].pc = "store1"
    /\ filter' = [filter EXCEPT !.DynamicFields.m[TAGS].ss[gor[p].j] = gor[p].x]
    /\ gor' = [gor EXCEPT ![p].pc = "store2"]
    /\ ConcFrame

\* the second write: data[j-1] = y
Store2(p) ==
    /\ gor[p].pc = "store2"
    /\ filter' = [filter EXCEPT !.DynamicFields.m[TAGS].ss[gor[p].j - 1] = gor[p].y]
    /\ gor' = [gor EXCEPT ![p].pc = "inner", ![p].j = gor[p].j - 1]
    /\ ConcFrame

\* strings.Join(v, ","), the segment, the sort of all segments and the digest
Return(p) ==
    /\ gor[p].pc = "join"
    /\ LET value        == Join(Shared, <<44>>)
           dynamic      == IF value # EmptyStr
                           THEN <<formatCacheKeyField(TAGS, value)>>
                           ELSE <<>>
           sortedFields == SortStrings(FixedSegments(FixedFieldValues(filter)) \o dynamic)
       IN  gor' = [gor EXCEPT ![p].pc = "done",
                              ![p].key = <<<<108, 105, 115, 116, 58>>,
                                           Sha256Hash(Join(sortedFields, <<58>>))>>]
    /\ UNCHANGED filter
    /\ ConcFrame

NextConc ==
    \E p \in Goroutines :
        \/ Enter(p)
        \/ Outer(p)
        \/ Inner(p)
        \/ Load(p)
        \/ Store1(p)
        \/ Store2(p)
        \/ Return(p)

SpecConc == InitConc /\ [][NextConc]_vars

\* C16: GenerateCacheKey calls running concurrently on one filter write
\* nothing that they share, so whatever the interleaving they return the
\* same key.
C16_ConcurrentCallsAgree ==
    (\A p \in DOMAIN gor : gor[p].pc = "done") =>
        \A p, q \in DOMAIN gor : gor[p].key = gor[q].key

----------------------------------------------------------------------------
(* GeneratePaginatedResponse.  The page count is computed in float64:
   int(math.Ceil(float64(totalData) / float64(filter.Limit))).  A float64
   keeps 53 significant bits of a 64-bit int, 11 fewer than the int has; the
   model keeps the same 11-bit gap below IntBits. *)

MantBits == IntBits - 11

\* n/d * 2^e with n/d scaled into [2^(MantBits-1), 2^MantBits)
RECURSIVE Normalize(_, _, _)
Normalize(n, d, e) ==
    IF n >= Pow2(MantBits) * d THEN Normalize(n, 2 * d, e + 1)
    ELSE IF n < Pow2(MantBits - 1) * d THEN Normalize(2 * n, d, e - 1)
    ELSE [n |-> n, d |-> d, e |-> e]

\* the float nearest to n/d (n >= 0, d > 0), ties to the even significand:
\* significand m and exponent e of the value m * 2^e
RoundRatio(n, d) ==
    IF n = 0 THEN [m |-> 0, e |-> 0]
    ELSE LET z  == Normalize(n, d, 0)
             q  == z.n \div z.d
             r  == z.n % z.d
             up == 2 * r > z.d \/ (2 * r = z.d /\ q % 2 = 1)
             m  == IF up THEN q + 1 ELSE q
         IN  IF m = Pow2(MantBits)
             THEN [m |-> Pow2(MantBits - 1), e |-> z.e + 1]
             ELSE [m |-> m, e |-> z.e]

\* float64(x) of an int: sign and magnitude
ToFloat(x) == [neg |-> x < 0, mag |-> RoundRatio(IF x < 0 THEN 0 - x ELSE x, 1)]

\* the magnitude of a float that holds an integer
IntegerOf(mag) ==
    IF mag.e >= 0 THEN mag.m * Pow2(mag.e) ELSE mag.m \div Pow2(0 - mag.e)

\* a / b for floats made from ints, b not zero
FloatDiv(a, b) ==
    [neg |-> (a.neg # b.neg) /\ a.mag.m # 0,
     mag |-> RoundRatio(IntegerOf(a.mag), IntegerOf(b.mag))]

\* math.Ceil, as an integer
Ceil(x) ==
    IF x.mag.e >= 0
    THEN (IF x.neg THEN 0 - IntegerOf(x.mag) ELSE IntegerOf(x.mag))
    ELSE LET unit == Pow2(0 - x.mag.e)
         IN  IF x.neg THEN 0 - (x.mag.m \div unit)
             ELSE (x.mag.m + unit - 1) \div unit

\* int(f) of a float no int can hold (too large, an infinity, NaN): the
\* language leaves the result to the implementation
ImplementationDefined == {MinInt, 0, MaxInt}

\* the values totalPage can get
TotalPages(totalData, limit) ==
    IF limit = 0 THEN ImplementationDefined
    ELSE LET v == Ceil(FloatDiv(ToFloat(totalData), ToFloat(limit)))
         IN  IF v >= MinInt /\ v <= MaxInt THEN {v} ELSE ImplementationDefined

\* GeneratePaginatedResponse: the responses it can return (Data and Filters
\* are the arguments, passed through)
GeneratePaginatedResponse(totalData, f) ==
    { [TotalData |-> totalData, TotalPage |-> totalPage,
       CurrentPage |-> f.Page, PageSize |-> f.Limit] :
         totalPage \in TotalPages(totalData, f.Limit) }

TotalVals == (0 - 1)..(2 * Pow2(MantBits) + 4) \cup {MaxInt}

ResponseLimits == {0 - 2, 0, 1, 2, 3, 7, MaxLimitDefault}

InitResp ==
    /\ filter \in {[ZeroFilter EXCEPT !.Page = p, !.Limit = l] :
                      p \in {1, 3}, l \in ResponseLimits}
    /\ env = EmptyStr
    /\ op = "new"
    /\ pre = ZeroFilter
    /\ key = NoKey
    /\ prefix = EmptyStr
    /\ raw = <<>>
    /\ res = NoRes
    /\ nassign = 0
    /\ supplied = FALSE
    /\ resp = NoResp
    /\ gor = <<>>
    /\ ErrIdle

GeneratePaginatedResponseCall ==
    \E totalData \in TotalVals :
        /\ resp' \in GeneratePaginatedResponse(totalData, filter)
        /\ op' = "GeneratePaginatedResponse"
        /\ UNCHANGED <<pageVars, gor, errVars>>

NextResp == GeneratePaginatedResponseCall

SpecResp == InitResp /\ [][NextResp]_vars

\* C17: for totalData >= 0 and Limit >= 1, TotalPage is ceil(totalData /
\* Limit), the smallest integer n with n * Limit >= totalData.
C17_TotalPageIsCeiling ==
    (op = "GeneratePaginatedResponse" /\ resp.TotalData >= 0 /\ filter.Limit >= 1) =>
        /\ resp.TotalPage * filter.Limit >= resp.TotalData
        /\ (resp.TotalPage - 1) * filter.Limit < resp.TotalData

----------------------------------------------------------------------------
(* Error responses (src/errors.go): error values, field names, messages *)

\* strings.Contains
Contains(s, sub) ==
    \E i \in 0..(Len(s) - Len(sub)) : SubSeq(s, i + 1, i + Len(sub)) = sub

\* toSnakeCase, the loop: an underscore before every upper-case letter but
\* the first character
RECURSIVE Underscored(_, _)
Underscored(str, i) ==
    IF i > Len(str) THEN <<>>
    ELSE (IF i > 1 /\ str[i] >= 65 /\ str[i] <= 90 THEN <<95>> ELSE <<>>)
         \o <<str[i]>> \o Underscored(str, i + 1)

\* a conversion that leaves the letters in their case
toSnakeCase_noLower(str) == Underscored(str, 1)

\* toSnakeCase
toSnakeCase(str) == ToLower(Underscored(str, 1))

\* humanizeFieldName
humanizeFieldName(field) ==
    LET words == Split(toSnakeCase(field), 95)
    IN  Join([i \in 1..Len(words) |-> ToLower(words[i])], <<32>>)

ValidationErrors(fes) == ErrorValue("validation", fes, EmptyStr, EmptyStr, {}, EmptyStr)

UnmarshalTypeError(field, type) == ErrorValue("unmarshal", <<>>, field, type, {}, EmptyStr)

OtherError(is, text) == ErrorValue("other", <<>>, EmptyStr, EmptyStr, is, text)

\* a validator.FieldError
FieldError(field, tag, param) == [Field |-> field, Tag |-> tag, Param |-> param]

\* getValidationErrorMessage
getValidationErrorMessage(validationErr) ==
    LET fieldName == humanizeFieldName(validationErr.Field)
        param     == validationErr.Param
        tag       == validationErr.Tag
    IN  CASE tag = "required" -> <<80, 108, 101, 97, 115, 101, 32, 112, 114, 111, 118, 105, 100, 101, 32>> \o fieldName
          [] tag = "email"    -> <<80, 108, 101, 97, 115, 101, 32, 101, 110, 116, 101, 114, 32, 97, 32, 118, 97, 108, 105, 100, 32, 101, 109, 97, 105, 108, 32, 97, 100, 100, 114, 101, 115, 115, 32, 102, 111, 114, 32>> \o fieldName
          [] tag = "min"      -> fieldName \o <<32, 109, 117, 115, 116, 32, 98, 101, 32, 97, 116, 32, 108, 101, 97, 115, 116, 32>> \o param \o <<32, 99, 104, 97, 114, 97, 99, 116, 101, 114, 115>>
          [] tag = "max"      -> fieldName \o <<32, 99, 97, 110, 110, 111, 116, 32, 98, 101, 32, 108, 111, 110, 103, 101, 114, 32, 116, 104, 97, 110, 32>> \o param \o <<32, 99, 104, 97, 114, 97, 99, 116, 101, 114, 115>>
          [] tag = "gte"      -> fieldName \o <<32, 109, 117, 115, 116, 32, 98, 101, 32>> \o param \o <<32, 111, 114, 32, 103, 114, 101, 97, 116, 101, 114>>
          [] tag = "lte"      -> fieldName \o <<32, 109, 117, 115, 116, 32, 98, 101, 32>> \o param \o <<32, 111, 114, 32, 108, 101, 115, 115>>
          [] tag = "url"      -> <<80, 108, 101, 97, 115, 101, 32, 101, 110, 116, 101, 114, 32, 97, 32, 118, 97, 108, 105, 100, 32, 85, 82, 76, 32, 102, 111, 114, 32>> \o fieldName
          [] tag = "datetime" -> <<80, 108, 101, 97, 115, 101, 32, 101, 110, 116, 101, 114, 32, 97, 32, 118, 97, 108, 105, 100, 32, 100, 97, 116, 101, 32, 97, 110, 100, 32, 116, 105, 109, 101, 32, 102, 111, 114, 32>> \o fieldName
          [] OTHER            -> fieldName \o <<32, 104, 97, 115, 32, 97, 110, 32, 105, 110, 118, 97, 108, 105, 100, 32, 118, 97, 108, 117, 101>>

\* getDatabaseErrorMessage, for an error that is not nil
getDatabaseErrorMessage(err) ==
    \* "We couldn't find what you're looking for"
    IF "ErrNoRows" \in err.is THEN <<87, 101, 32, 99, 111, 117, 108, 100, 110, 39, 116, 32, 102, 105, 110, 100, 32, 119, 104, 97, 116, 32, 121, 111, 117, 39, 114, 101, 32, 108, 111, 111, 107, 105, 110, 103, 32, 102, 111, 114>>
    \* "We're having trouble connecting to our database. Please try again"
    ELSE IF "ErrConnDone" \in err.is THEN <<87, 101, 39, 114, 101, 32, 104, 97, 118, 105, 110, 103, 32, 116, 114, 111, 117, 98, 108, 101, 32, 99, 111, 110, 110, 101, 99, 116, 105, 110, 103, 32, 116, 111, 32, 111, 117, 114, 32, 100, 97, 116, 97, 98, 97, 115, 101, 46, 32, 80, 108, 101, 97, 115, 101, 32, 116, 114, 121, 32, 97, 103, 97, 105, 110>>
    \* "This information already exists in our system"
    ELSE IF Contains(err.text, <<117, 110, 105, 113, 117, 101, 32, 99, 111, 110, 115, 116, 114, 97, 105, 110, 116>>) THEN <<84, 104, 105, 115, 32, 105, 110, 102, 111, 114, 109, 97, 116, 105, 111, 110, 32, 97, 108, 114, 101, 97, 100, 121, 32, 101, 120, 105, 115, 116, 115, 32, 105, 110, 32, 111, 117, 114, 32, 115, 121, 115, 116, 101, 109>>
    \* "This operation references invalid or non-existent data"
    ELSE IF Contains(err.text, <<102, 111, 114, 101, 105, 103, 110, 32, 107, 101, 121, 32, 99, 111, 110, 115, 116, 114, 97, 105, 110, 116>>) THEN <<84, 104, 105, 115, 32, 111, 112, 101, 114, 97, 116, 105, 111, 110, 32, 114, 101, 102, 101, 114, 101, 110, 99, 101, 115, 32, 105, 110, 118, 97, 108, 105, 100, 32, 111, 114, 32, 110, 111, 110, 45, 101, 120, 105, 115, 116, 101, 110, 116, 32, 100, 97, 116, 97>>
    \* "Required information is missing"
    ELSE IF Contains(err.text, <<110, 111, 116, 45, 110, 117, 108, 108, 32, 99, 111, 110, 115, 116, 114, 97, 105, 110, 116>>) THEN <<82, 101, 113, 117, 105, 114, 101, 100, 32, 105, 110, 102, 111, 114, 109, 97, 116, 105, 111, 110, 32, 105, 115, 32, 109, 105, 115, 115, 105, 110, 103>>
    \* "The provided data format is invalid"
    ELSE IF Contains(err.text, <<105, 110, 118, 97, 108, 105, 100, 32, 105, 110, 112, 117, 116, 32, 115, 121, 110, 116, 97, 120>>) THEN <<84, 104, 101, 32, 112, 114, 111, 118, 105, 100, 101, 100, 32, 100, 97, 116, 97, 32, 102, 111, 114, 109, 97, 116, 32, 105, 115, 32, 105, 110, 118, 97, 108, 105, 100>>
    ELSE EmptyStr

----------------------------------------------------------------------------
(* StandardErrorResponse and its methods *)

\* http.StatusText, for the codes the callers of the model use
StatusText(code) ==
    CASE code = 200 -> <<79, 75>>
      [] code = 418 -> <<73, 39, 109, 32, 97, 32, 116, 101, 97, 112, 111, 116>>
      [] OTHER      -> EmptyStr

\* getDefaultMessageForStatus
getDefaultMessageForStatus(code) ==
    CASE code = 400 -> <<87, 101, 32, 99, 111, 117, 108, 100, 110, 39, 116, 32, 112, 114, 111, 99, 101, 115, 115, 32, 121, 111, 117, 114, 32, 114, 101, 113, 117, 101, 115, 116, 32, 100, 117, 101, 32, 116, 111, 32, 105, 110, 118, 97, 108, 105, 100, 32, 105, 110, 112, 117, 116>>
      [] code = 401 -> <<80, 108, 101, 97, 115, 101, 32, 97, 117, 116, 104, 101, 110, 116, 105, 99, 97, 116, 101, 32, 116, 111, 32, 97, 99, 99, 101, 115, 115, 32, 116, 104, 105, 115, 32, 114, 101, 115, 111, 117, 114, 99, 101>>
      [] code = 403 -> <<89, 111, 117, 32, 100, 111, 110, 39, 116, 32, 104, 97, 118, 101, 32, 112, 101, 114, 109, 105, 115, 115, 105, 111, 110, 32, 116, 111, 32, 97, 99, 99, 101, 115, 115, 32, 116, 104, 105, 115, 32, 114, 101, 115, 111, 117, 114, 99, 101>>
      [] code = 404 -> <<84, 104, 101, 32, 114, 101, 113, 117, 101, 115, 116, 101, 100, 32, 114, 101, 115, 111, 117, 114, 99, 101, 32, 99, 111, 117, 108, 100, 110, 39, 116, 32, 98, 101, 32, 102, 111, 117, 110, 100>>
      [] code = 409 -> <<84, 104, 105, 115, 32, 111, 112, 101, 114, 97, 116, 105, 111, 110, 32, 99, 111, 110, 102, 108, 105, 99, 116, 115, 32, 119, 105, 116, 104, 32, 97, 110, 32, 101, 120, 105, 115, 116, 105, 110, 103, 32, 114, 101, 115, 111, 117, 114, 99, 101>>
      [] code = 422 -> <<84, 104, 101, 32, 115, 117, 98, 109, 105, 116, 116, 101, 100, 32, 100, 97, 116, 97, 32, 102, 97, 105, 108, 101, 100, 32, 118, 97, 108, 105, 100, 97, 116, 105, 111, 110>>
      [] code = 429 -> <<89, 111, 117, 39, 118, 101, 32, 101, 120, 99, 101, 101, 100, 101, 100, 32, 116, 104, 101, 32, 97, 108, 108, 111, 119, 101, 100, 32, 110, 117, 109, 98, 101, 114, 32, 111, 102, 32, 114, 101, 113, 117, 101, 115, 116, 115, 46, 32, 80, 108, 101, 97, 115, 101, 32, 116, 114, 121, 32, 97, 103, 97, 105, 110, 32, 108, 97, 116, 101, 114>>
      [] code = 500 -> <<65, 110, 32, 117, 110, 101, 120, 112, 101, 99, 116, 101, 100, 32, 101, 114, 114, 111, 114, 32, 111, 99, 99, 117, 114, 114, 101, 100, 46, 32, 79, 117, 114, 32, 116, 101, 97, 109, 32, 104, 97, 115, 32, 98, 101, 101, 110, 32, 110, 111, 116, 105, 102, 105, 101, 100>>
      [] code = 503 -> <<84, 104, 101, 32, 115, 101, 114, 118, 105, 99, 101, 32, 105, 115, 32, 116, 101, 109, 112, 111, 114, 97, 114, 105, 108, 121, 32, 117, 110, 97, 118, 97, 105, 108, 97, 98, 108, 101, 46, 32, 80, 108, 101, 97, 115, 101, 32, 116, 114, 121, 32, 97, 103, 97, 105, 110, 32, 108, 97, 116, 101, 114>>
      [] OTHER      -> StatusText(code)

\* NewStandardErrorResponse
NewStandardErrorResponse(statusCode) ==
    [Code |-> statusCode, Message |-> getDefaultMessageForStatus(statusCode),
     Errors |-> <<>>, RequestID |-> EmptyStr]

\* one entry of Errors: a map with the keys "field" and "message"
Entry(field, message) == [field |-> field, message |-> message]

\* a ResetErrors that also forgets the request id
ResetErrors_forgetful(r) == [r EXCEPT !.Errors = <<>>, !.RequestID = EmptyStr]

\* ResetErrors
ResetErrors(r) == [r EXCEPT !.Errors = <<>>]

\* an AddError whose default case appends the general entry also for a
\* persistence error
ErrorEntries_both(err) ==
    CASE err.kind = "validation" ->
            [i \in 1..Len(err.fes) |->
                Entry(toSnakeCase(err.fes[i].Field), getValidationErrorMessage(err.fes[i]))]
      [] err.kind = "unmarshal" ->
            <<Entry(toSnakeCase(err.ufield),
                    <<73, 110, 118, 97, 108, 105, 100, 32, 118, 97, 108, 117, 101, 32, 102, 111, 114, 32>> \o err.ufield \o <<46, 32, 69, 120, 112, 101, 99, 116, 101, 100, 32>> \o err.utype)>>
      [] OTHER ->
            (IF getDatabaseErrorMessage(err) # EmptyStr
             THEN <<Entry(<<100, 97, 116, 97, 98, 97, 115, 101>>, getDatabaseErrorMessage(err))>>
             ELSE <<>>)
            \o <<Entry(<<103, 101, 110, 101, 114, 97, 108>>, err.text)>>

\* the entries AddError appends for an error that is not nil
ErrorEntries(err) ==
    CASE err.kind = "validation" ->
            [i \in 1..Len(err.fes) |->
                Entry(toSnakeCase(err.fes[i].Field), getValidationErrorMessage(err.fes[i]))]
      [] err.kind = "unmarshal" ->
            <<Entry(toSnakeCase(err.ufield),
                    <<73, 110, 118, 97, 108, 105, 100, 32, 118, 97, 108, 117, 101, 32, 102, 111, 114, 32>> \o err.ufield \o <<46, 32, 69, 120, 112, 101, 99, 116, 101, 100, 32>> \o err.utype)>>
      [] OTHER ->
            IF getDatabaseErrorMessage(err) # EmptyStr
            THEN <<Entry(<<100, 97, 116, 97, 98, 97, 115, 101>>, getDatabaseErrorMessage(err))>>
            ELSE <<Entry(<<103, 101, 110, 101, 114, 97, 108>>, err.text)>>

\* AddError on a nil error: the default case calls err.Error() on the nil
\* interface value, which panics
AddErrorPanics(err) == err.kind = "nil"

\* AddError, for an error that is not nil
AddError(r, err) == [r EXCEPT !.Errors = r.Errors \o ErrorEntries(err)]

\* an AddMessageError that keeps only the new entry
AddMessageError_replace(r, field, message) ==
    [r EXCEPT !.Errors = <<Entry(field, message)>>]

\* AddMessageError
AddMessageError(r, field, message) ==
    [r EXCEPT !.Errors = Append(r.Errors, Entry(field, message))]

\* a JSON that does not read the X-Request-ID header
JSON_noHeader(r, reqID) == r

\* StandardErrorResponse.JSON: the response after the call, given the
\* X-Request-ID header of the request ("" when there is none)
JSON(r, reqID) == IF reqID # EmptyStr THEN [r EXCEPT !.RequestID = reqID] ELSE r

\* what JSON hands to c.JSON: the status and the body to serialize
Emitted(r, reqID) == [status |-> r.Code, body |-> JSON(r, reqID)]

\* an error CustomErrorHandler receives is an *echo.HTTPError, an *HTTPError
\* (both with Code and Message) or anything else
\* the calls of CustomErrorHandler: an error and the request's X-Request-ID
HandlerCalls ==
    { <<[kind |-> "echo", Code |-> 401, Message |-> <<117, 110, 97, 117, 116, 104, 111, 114, 105, 122, 101, 100, 32, 97, 99, 99, 101, 115, 115>>], <<114, 101, 113, 45, 49>>>>,
      <<[kind |-> "http", Code |-> 404, Message |-> <<110, 111, 32, 115, 117, 99, 104, 32, 112, 97, 103, 101>>], EmptyStr>>,
      <<[kind |-> "other", Code |-> 0, Message |-> EmptyStr], EmptyStr>> }

\* CustomErrorHandler: what it writes to the client
CustomErrorHandler(err, reqID) ==
    LET statusCode == IF err.kind \in {"echo", "http"} THEN err.Code ELSE 500
        message    == IF err.kind \in {"echo", "http"} THEN err.Message
                      ELSE <<65, 110, 32, 117, 110, 101, 120, 112, 101, 99, 116, 101, 100, 32, 101, 114, 114, 111, 114, 32, 111, 99, 99, 117, 114, 114, 101, 100>>
        resp0      == NewStandardErrorResponse(statusCode)
    IN  Emitted(AddMessageError(resp0, <<101, 114, 114, 111, 114>>, message), reqID)

\* a translation that knows no "unique constraint" pattern
getDatabaseErrorResponse_noUnique(err) ==
    \* "We couldn't find what you're looking for"
    IF "ErrNoRows" \in err.is THEN [status |-> 404, message |-> <<87, 101, 32, 99, 111, 117, 108, 100, 110, 39, 116, 32, 102, 105, 110, 100, 32, 119, 104, 97, 116, 32, 121, 111, 117, 39, 114, 101, 32, 108, 111, 111, 107, 105, 110, 103, 32, 102, 111, 114>>]
    \* "We're having trouble connecting to our database. Please try again"
    ELSE IF "ErrConnDone" \in err.is THEN [status |-> 500, message |-> <<87, 101, 39, 114, 101, 32, 104, 97, 118, 105, 110, 103, 32, 116, 114, 111, 117, 98, 108, 101, 32, 99, 111, 110, 110, 101, 99, 116, 105, 110, 103, 32, 116, 111, 32, 111, 117, 114, 32, 100, 97, 116, 97, 98, 97, 115, 101, 46, 32, 80, 108, 101, 97, 115, 101, 32, 116, 114, 121, 32, 97, 103, 97, 105, 110>>]
    \* "An unexpected database error occurred"
    ELSE [status |-> 500, message |-> <<65, 110, 32, 117, 110, 101, 120, 112, 101, 99, 116, 101, 100, 32, 100, 97, 116, 97, 98, 97, 115, 101, 32, 101, 114, 114, 111, 114, 32, 111, 99, 99, 117, 114, 114, 101, 100>>]

\* getDatabaseErrorResponse: the HTTP status and the message for a
\* persistence error
getDatabaseErrorResponse(err) ==
    \* "We couldn't find what you're looking for"
    IF "ErrNoRows" \in err.is THEN [status |-> 404, message |-> <<87, 101, 32, 99, 111, 117, 108, 100, 110, 39, 116, 32, 102, 105, 110, 100, 32, 119, 104, 97, 116, 32, 121, 111, 117, 39, 114, 101, 32, 108, 111, 111, 107, 105, 110, 103, 32, 102, 111, 114>>]
    \* "We're having trouble connecting to our database. Please try again"
    ELSE IF "ErrConnDone" \in err.is THEN [status |-> 500, message |-> <<87, 101, 39, 114, 101, 32, 104, 97, 118, 105, 110, 103, 32, 116, 114, 111, 117, 98, 108, 101, 32, 99, 111, 110, 110, 101, 99, 116, 105, 110, 103, 32, 116, 111, 32, 111, 117, 114, 32, 100, 97, 116, 97, 98, 97, 115, 101, 46, 32, 80, 108, 101, 97, 115, 101, 32, 116, 114, 121, 32, 97, 103, 97, 105, 110>>]
    ELSE IF Contains(err.text, <<117, 110, 105, 113, 117, 101, 32, 99, 111, 110, 115, 116, 114, 97, 105, 110, 116>>)
         \* "This information already exists in our system"
         THEN [status |-> 409, message |-> <<84, 104, 105, 115, 32, 105, 110, 102, 111, 114, 109, 97, 116, 105, 111, 110, 32, 97, 108, 114, 101, 97, 100, 121, 32, 101, 120, 105, 115, 116, 115, 32, 105, 110, 32, 111, 117, 114, 32, 115, 121, 115, 116, 101, 109>>]
    \* "An unexpected database error occurred"
    ELSE [status |-> 500, message |-> <<65, 110, 32, 117, 110, 101, 120, 112, 101, 99, 116, 101, 100, 32, 100, 97, 116, 97, 98, 97, 115, 101, 32, 101, 114, 114, 111, 114, 32, 111, 99, 99, 117, 114, 114, 101, 100>>]

----------------------------------------------------------------------------
(* The state machine of one StandardErrorResponse and its callers *)

\* the number of entries up to which the callers go on adding
MaxErrors == 2

CodeVals == {400, 418}

HeaderVals == {EmptyStr, <<114, 101, 113, 45, 49>>, <<114, 101, 113, 45, 50>>}

ManualVals == {<<<<116, 101, 115, 116>>, <<116, 101, 115, 116, 32, 101, 114, 114, 111, 114>>>>, <<<<78, 97, 109, 101>>, EmptyStr>>}

\* persistence errors and other plain errors
PlainErrors ==
    { \* sql.ErrNoRows
      OtherError({"ErrNoRows"}, <<115, 113, 108, 58, 32, 110, 111, 32, 114, 111, 119, 115, 32, 105, 110, 32, 114, 101, 115, 117, 108, 116, 32, 115, 101, 116>>),
      \* sql.ErrConnDone
      OtherError({"ErrConnDone"}, <<115, 113, 108, 58, 32, 99, 111, 110, 110, 101, 99, 116, 105, 111, 110, 32, 105, 115, 32, 97, 108, 114, 101, 97, 100, 121, 32, 99, 108, 111, 115, 101, 100>>),
      \* errors.New("unique constraint violation")
      OtherError({}, <<117, 110, 105, 113, 117, 101, 32, 99, 111, 110, 115, 116, 114, 97, 105, 110, 116, 32, 118, 105, 111, 108, 97, 116, 105, 111, 110>>),
      \* fmt.Errorf("insert: unique constraint: %w", sql.ErrNoRows)
      OtherError({"ErrNoRows"}, <<105, 110, 115, 101, 114, 116, 58, 32, 117, 110, 105, 113, 117, 101, 32, 99, 111, 110, 115, 116, 114, 97, 105, 110, 116, 58, 32, 115, 113, 108, 58, 32, 110, 111, 32, 114, 111, 119, 115, 32, 105, 110, 32, 114, 101, 115, 117, 108, 116, 32, 115, 101, 116>>),
      \* errors.New("foreign key constraint fails")
      OtherError({}, <<102, 111, 114, 101, 105, 103, 110, 32, 107, 101, 121, 32, 99, 111, 110, 115, 116, 114, 97, 105, 110, 116, 32, 102, 97, 105, 108, 115>>),
      \* errors.New("unknown error")
      OtherError({}, <<117, 110, 107, 110, 111, 119, 110, 32, 101, 114, 114, 111, 114>>) }

ErrVals ==
    { \* sql.ErrNoRows
      OtherError({"ErrNoRows"}, <<115, 113, 108, 58, 32, 110, 111, 32, 114, 111, 119, 115, 32, 105, 110, 32, 114, 101, 115, 117, 108, 116, 32, 115, 101, 116>>),
      \* errors.New("unique constraint violation")
      OtherError({}, <<117, 110, 105, 113, 117, 101, 32, 99, 111, 110, 115, 116, 114, 97, 105, 110, 116, 32, 118, 105, 111, 108, 97, 116, 105, 111, 110>>),
      \* errors.New("unknown error")
      OtherError({}, <<117, 110, 107, 110, 111, 119, 110, 32, 101, 114, 114, 111, 114>>),
      NilError,
      ValidationErrors(<<FieldError(<<70, 105, 114, 115, 116, 78, 97, 109, 101>>, "required", EmptyStr),
                         FieldError(<<65, 103, 101>>, "gte", <<49, 56>>)>>),
      ValidationErrors(<<>>),
      UnmarshalTypeError(<<65, 103, 101>>, <<105, 110, 116>>) }

InitErr ==
    /\ filter = ZeroFilter
    /\ env = EmptyStr
    /\ op = "new"
    /\ pre = ZeroFilter
    /\ key = NoKey
    /\ prefix = EmptyStr
    /\ raw = <<>>
    /\ res = NoRes
    /\ nassign = 0
    /\ supplied = FALSE
    /\ resp = NoResp
    /\ gor = <<>>
    /\ ErrIdle

\* a call on the response: its name, its arguments, the response it leaves
Call(name, arg, r) ==
    /\ op' = name
    /\ earg' = arg
    /\ ser0' = ser
    /\ ser' = r
    /\ UNCHANGED <<pageVars, resp, gor, conv>>

NewStandardErrorResponseCall ==
    \E code \in CodeVals :
        /\ Call("NewStandardErrorResponse", NoArg, NewStandardErrorResponse(code))
        /\ sent' = NoSent
        /\ dbres' = NoDbRes

AddErrorCall ==
    \E err \in ErrVals :
        /\ Len(ser.Errors) < MaxErrors
        /\ IF AddErrorPanics(err)
           THEN Call("AddError panic", [NoArg EXCEPT !.err = err], ser)
           ELSE Call("AddError", [NoArg EXCEPT !.err = err], AddError(ser, err))
        /\ sent' = NoSent
        /\ dbres' = NoDbRes

AddMessageErrorCall ==
    \E fm \in ManualVals :
        /\ Len(ser.Errors) < MaxErrors
        /\ Call("AddMessageError", [NoArg EXCEPT !.field = fm[1], !.message = fm[2]],
                AddMessageError(ser, fm[1], fm[2]))
        /\ sent' = NoSent
        /\ dbres' = NoDbRes

ResetErrorsCall ==
    /\ Call("ResetErrors", NoArg, ResetErrors(ser))
    /\ sent' = NoSent
    /\ dbres' = NoDbRes

JSONCall ==
    \E reqID \in HeaderVals :
        /\ Call("JSON", [NoArg EXCEPT !.header = reqID], JSON(ser, reqID))
        /\ sent' = Emitted(ser, reqID)
        /\ dbres' = NoDbRes

CustomErrorHandlerCall ==
    \E c \in HandlerCalls :
        /\ Call("CustomErrorHandler", [NoArg EXCEPT !.header = c[2]], ser)
        /\ sent' = CustomErrorHandler(c[1], c[2])
        /\ dbres' = NoDbRes

GetDatabaseErrorResponseCall ==
    \E err \in PlainErrors :
        /\ Call("getDatabaseErrorResponse", [NoArg EXCEPT !.err = err], ser)
        /\ sent' = NoSent
        /\ dbres' = getDatabaseErrorResponse(err)

NextErr ==
    \/ NewStandardErrorResponseCall
    \/ AddErrorCall
    \/ AddMessageErrorCall
    \/ ResetErrorsCall
    \/ JSONCall
    \/ CustomErrorHandlerCall
    \/ GetDatabaseErrorResponseCall

SpecErr == InitErr /\ [][NextErr]_vars

----------------------------------------------------------------------------
(* Properties of the error accumulator *)

\* a is an initial part of b
IsPrefix(a, b) == Len(a) <= Len(b) /\ SubSeq(b, 1, Len(a)) = a

\* C18: the entries are append-only between resets: whatever is called
\* except ResetErrors (or the construction of a new response), the entries
\* that were there are still there, unmodified and in their order, and
\* AddMessageError(field, message) appends exactly the one entry {field,
\* message} at the end.
C18_AppendOnly ==
    /\ op \notin {"ResetErrors", "NewStandardErrorResponse"} =>
           IsPrefix(ser0.Errors, ser.Errors)
    /\ op = "AddMessageError" =>
           ser.Errors = ser0.Errors \o <<[field |-> earg.field, message |-> earg.message]>>

\* AddMessageError has been called on a response that already had an entry
C18_Witness ==
    /\ op = "AddMessageError"
    /\ ser0.Errors # <<>>
    /\ Len(ser.Errors) = Len(ser0.Errors) + 1

\* C19: ResetErrors leaves the entry list empty and the status code, the
\* overall message and the request id as they were.
C19_ResetKeepsTheRest ==
    op = "ResetErrors" =>
        /\ ser.Errors = <<>>
        /\ ser.Code = ser0.Code
        /\ ser.Message = ser0.Message
        /\ ser.RequestID = ser0.RequestID

\* ResetErrors has been called on a response with entries, a status code,
\* a message and a request id
C19_Witness ==
    /\ op = "ResetErrors"
    /\ ser0.Errors # <<>>
    /\ ser0.Code # 0
    /\ ser0.Message # EmptyStr
    /\ ser0.RequestID # EmptyStr

----------------------------------------------------------------------------
(* Properties of AddError and JSON *)

\* the entries the last call appended
Appended == SubSeq(ser.Errors, Len(ser0.Errors) + 1, Len(ser.Errors))

\* C21: error translation is total: for every error value passed to
\* AddError the call completes without failing, and afterwards the response
\* holds at least one entry with a message for that error.
C21_AddErrorTotal ==
    /\ op # "AddError panic"
    /\ op = "AddError" => Len(ser.Errors) >= Len(ser0.Errors) + 1

\* C22: JSON sends the response with the HTTP status equal to its Code and,
\* when the request has a non-empty X-Request-ID header, with the request id
\* equal to the header value.
C22_EmitsCodeAndRequestID ==
    op = "JSON" =>
        /\ sent.status = ser0.Code
        /\ sent.body.Code = ser0.Code
        /\ earg.header # EmptyStr => sent.body.RequestID = earg.header

\* a response that carried the id of an earlier request has been emitted
\* for a request with another id
C22_Witness ==
    /\ op = "JSON"
    /\ earg.header # EmptyStr
    /\ ser0.RequestID # EmptyStr
    /\ ser0.RequestID # earg.header
    /\ sent.status = 400

\* the error matches a persistence sentinel or one of the message patterns
IsPersistenceError(err) ==
    \/ err.is \cap {"ErrNoRows", "ErrConnDone"} # {}
    \/ \E pattern \in {<<117, 110, 105, 113, 117, 101, 32, 99, 111, 110, 115, 116, 114, 97, 105, 110, 116>>, <<102, 111, 114, 101, 105, 103, 110, 32, 107, 101, 121, 32, 99, 111, 110, 115, 116, 114, 97, 105, 110, 116>>,
                       <<110, 111, 116, 45, 110, 117, 108, 108, 32, 99, 111, 110, 115, 116, 114, 97, 105, 110, 116>>, <<105, 110, 118, 97, 108, 105, 100, 32, 105, 110, 112, 117, 116, 32, 115, 121, 110, 116, 97, 120>>} :
           Contains(err.text, pattern)

\* C24: AddError puts every error into exactly one kind, by priority: a
\* validation-errors collection (one entry per field error, the field in
\* snake_case), else a JSON type-conversion error (one entry, the field in
\* snake_case), else a persistence error (one entry, field "database"),
\* else general (one entry, field "general", the error's own text); no
\* entry of a second kind is appended.
C24_OneKindPerError ==
    op = "AddError" =>
        LET err == earg.err
        IN  CASE err.kind = "validation" ->
                    /\ Len(Appended) = Len(err.fes)
                    /\ \A i \in 1..Len(err.fes) :
                           Appended[i].field = toSnakeCase(err.fes[i].Field)
              [] err.kind = "unmarshal" ->
                    /\ Len(Appended) = 1
                    /\ Appended[1].field = toSnakeCase(err.ufield)
              [] err.kind = "other" /\ IsPersistenceError(err) ->
                    /\ Len(Appended) = 1
                    /\ Appended[1].field = <<100, 97, 116, 97, 98, 97, 115, 101>>
                    /\ Appended[1].message # EmptyStr
              [] OTHER ->
                    Appended = <<[field |-> <<103, 101, 110, 101, 114, 97, 108>>, message |-> err.text]>>

\* a persistence error and a validation error with two field errors have
\* been added one after the other
C24_Witness ==
    /\ op = "AddError"
    /\ earg.err.kind = "validation"
    /\ Len(Appended) = 2
    /\ Len(ser0.Errors) = 1
    /\ ser0.Errors[1].field = <<100, 97, 116, 97, 98, 97, 115, 101>>

\* C30: after each emission the request id is that of the request just
\* served: an emission for a request without an X-Request-ID header does not
\* carry the id of an earlier request.
C30_RequestIDOfThisRequest ==
    op = "JSON" => sent.body.RequestID = earg.header

----------------------------------------------------------------------------
(* The format of the cache key *)

\* the name:value segments GenerateCacheKey keeps for f: those of the fixed
\* attributes, under their query names, and those of the dynamic fields,
\* under their keys
KeptSegments(f) == FixedSegments(FixedFieldValues(f)) \o DynamicPart(f)

\* C23: the key is prefix + "list:" + the SHA-256 digest of the string got
\* by sorting all kept segments, fixed and dynamic together, as one
\* collection and joining them with ":".
C23_KeyFormat ==
    op = "GenerateCacheKey" =>
        key = <<prefix \o <<108, 105, 115, 116, 58>>,
                Sha256Hash(Join(SortedOf(KeptSegments(pre)), <<58>>))>>

\* a key has been generated, under a non-empty prefix, for a filter with a
\* page and a dynamic field "a" whose segment sorts before "page:..."
C23_Witness ==
    /\ op = "GenerateCacheKey"
    /\ prefix # EmptyStr
    /\ pre.Page # 0
    /\ ~pre.DynamicFields.isNil
    /\ <<97>> \in DOMAIN pre.DynamicFields.m
    /\ DynamicValueString(pre.DynamicFields.m[<<97>>]) # EmptyStr


----------------------------------------------------------------------------
(* The attributes Validate leaves alone, and the offset it computes *)

\* C29: Validate leaves SortBy and the dynamic fields, keys and values, as
\* they were when the call began.
C29_ValidateFrame ==
    op = "Validate" =>
        /\ filter.SortBy = pre.SortBy
        /\ filter.DynamicFields = pre.DynamicFields

\* a Validate of a filter with an untrimmed SortBy and a dynamic field
C29_Witness ==
    /\ op = "Validate"
    /\ pre.SortBy = PaddedText
    /\ ~pre.DynamicFields.isNil
    /\ DOMAIN pre.DynamicFields.m # {}
    /\ filter.SortBy = PaddedText

\* C26: after every Validate of a filter whose offset the caller never
\* supplied, Offset is (Page-1)*Limit.
C26_OffsetFollowsPage ==
    (op = "Validate" /\ ~supplied) =>
        /\ filter.Offset.set
        /\ filter.Offset.v = WrapInt((filter.Page - 1) * filter.Limit)


----------------------------------------------------------------------------
(* The filter a successful ParseURLValues returns *)

\* C27: the filter returned by a successful ParseURLValues has an offset of
\* zero or more, whether the offset was passed or computed from the page.
C27_OffsetNonNegative ==
    (op = "ParseURLValues" /\ ~res.isNil) =>
        /\ res.filter.Offset.set
        /\ res.filter.Offset.v >= 0

\* C28: in the filter ParseURLValues returns no fixed-attribute parameter
\* name is a key of DynamicFields, even when its value is empty, every other
\* parameter name with at least one value is a key, and DynamicFields is not
\* nil.
C28_ParametersPartitioned ==
    (op = "ParseURLValues" /\ ~res.isNil) =>
        /\ ~res.filter.DynamicFields.isNil
        /\ \A n \in KnownParams : n \notin DOMAIN res.filter.DynamicFields.m
        /\ \A n \in DOMAIN raw :
              (n \notin KnownParams /\ Len(raw[n]) > 0)
                  => n \in DOMAIN res.filter.DynamicFields.m

\* a successful parse of a fixed-attribute parameter whose value is empty
\* together with a parameter that is no fixed attribute
C28_Witness ==
    /\ op = "ParseURLValues"
    /\ ~res.isNil
    /\ \E n \in DOMAIN raw \cap KnownParams : Len(raw[n]) > 0 /\ raw[n][1] = EmptyStr
    /\ \E n \in DOMAIN raw : n \notin KnownParams /\ n \in DOMAIN res.filter.DynamicFields.m

----------------------------------------------------------------------------
(* Field names: toSnakeCase and humanizeFieldName *)

MaxNameLen == 4

\* the field names converted: every string of up to MaxNameLen of the bytes
\* 'F', 'N', 'a' and '1', and "FirstName"
FieldNames ==
    UNION {[1..k -> {70, 78, 97, 49}] : k \in 0..MaxNameLen} \cup {<<70, 105, 114, 115, 116, 78, 97, 109, 101>>}

\* a field name is about to be converted
InitNames ==
    /\ conv \in {[name |-> name, snake |-> EmptyStr, human |-> EmptyStr] : name \in FieldNames}
    /\ op = "name"
    /\ filter = ZeroFilter
    /\ env = EmptyStr
    /\ pre = ZeroFilter
    /\ key = NoKey
    /\ prefix = EmptyStr
    /\ raw = <<>>
    /\ res = NoRes
    /\ nassign = 0
    /\ supplied = FALSE
    /\ resp = NoResp
    /\ gor = <<>>
    /\ ser = NoSer
    /\ ser0 = NoSer
    /\ earg = NoArg
    /\ sent = NoSent
    /\ dbres = NoDbRes

\* toSnakeCase(name) and humanizeFieldName(name) for the field name
ConvertCall ==
    /\ op = "name"
    /\ conv' = [conv EXCEPT !.snake = toSnakeCase(conv.name),
                            !.human = humanizeFieldName(conv.name)]
    /\ op' = "toSnakeCase"
    /\ UNCHANGED <<pageVars, resp, gor, ser, ser0, earg, sent, dbres>>

NextNames == ConvertCall

SpecNames == InitNames /\ [][NextNames]_vars

IsUpper(c) == c >= 65 /\ c <= 90

\* the place in the snake-case form of the i-th character of str
SnakePos(str, i) == i + Cardinality({j \in 2..i : IsUpper(str[j])})

\* C25: toSnakeCase puts an underscore before every upper-case letter that
\* is not the first character and lower-cases the result, humanizeFieldName
\* gives the same words with single spaces for the underscores, and neither
\* output has an upper-case letter (FirstName: first_name, "first name").
C25_NameConversions ==
    op = "toSnakeCase" =>
        LET str   == conv.name
            snake == conv.snake
            human == conv.human
        IN  /\ Len(snake) = SnakePos(str, Len(str))
            /\ \A i \in 1..Len(str) :
                  /\ snake[SnakePos(str, i)] =
                         (IF IsUpper(str[i]) THEN str[i] + 32 ELSE str[i])
                  /\ (i > 1 /\ IsUpper(str[i])) => snake[SnakePos(str, i) - 1] = 95
            /\ Len(human) = Len(snake)
            /\ \A j \in 1..Len(snake) :
                  human[j] = (IF snake[j] = 95 THEN 32 ELSE snake[j])
            /\ \A j \in 1..(Len(human) - 1) : ~(human[j] = 32 /\ human[j + 1] = 32)
            /\ \A j \in 1..Len(snake) : ~IsUpper(snake[j]) /\ ~IsUpper(human[j])
            /\ str = <<70, 105, 114, 115, 116, 78, 97, 109, 101>> =>
                  snake = <<102, 105, 114, 115, 116, 95, 110, 97, 109, 101>> /\ human = <<102, 105, 114, 115, 116, 32, 110, 97, 109, 101>>

\* FirstName has been converted
C25_Witness ==
    /\ op = "toSnakeCase"
    /\ conv.name = <<70, 105, 114, 115, 116, 78, 97, 109, 101>>
    /\ conv.snake = <<102, 105, 114, 115, 116, 95, 110, 97, 109, 101>>
    /\ conv.human = <<102, 105, 114, 115, 116, 32, 110, 97, 109, 101>>
====
